---- MODULE Spec2Model ----
\* Session-state reconciliation of UnifiedFirebaseAuthService
\* (src/src/UnifiedFirebaseAuth.ts): the upstream auth listener, the
\* identity merge (createUserFromFirebase), the observer registry
\* (onAuthStateChange / notifyListeners), login / logout and the
\* authorization evaluators.
EXTENDS Integers, Sequences, FiniteSets, TLC

\* ------------------------------------------------------------------
\* Bounds of the model
\* ------------------------------------------------------------------
MaxEvents == 2      \* provider-side session changes (sign-in / sign-out / login / logout)
MaxListeners == 2   \* length of the listeners array
MaxPending == 2     \* suspended async calls (merges, logout continuations) at once
MaxBindings == 1    \* initializeAuthListener attempts the model starts
MaxPolls == 3       \* runs of checkFirebaseReady the model follows
MaxTime == 3        \* ticks of the clock (Date.now())
MaxTokens == 2      \* ID tokens the provider issues
MaxCalls == 2       \* suspended getIdToken calls and monitor ticks at once

\* ------------------------------------------------------------------
\* Values
\* ------------------------------------------------------------------
Null == "<null>"                 \* JS null (firebaseUser, error)
NoNumber == -1                   \* JS undefined in a numeric field
Principals == {"u1", "u2"}
Callbacks == {"cbA", "cbB"}
AdapterCallback == "ui"          \* the callback UnifiedAuthProvider registers
Registrants == Callbacks \cup {AdapterCallback}
Behaviours == {"ok", "throw", "unsubSelf", "unsubOther"}
Projects == {"projA", "projB"}
Levels == {0, 30, 50, 60}
RoleNames == {"ADMIN", "MEMBER", "EDITOR"}
Standalone == "standalone"

Email(p) == IF p = "u1" THEN "u1@x.io" ELSE "u2@x.io"

\* A nullable record is a sequence of length 0 (null) or 1.
NullUser == <<>>
IsNull(m) == Len(m) = 0
Val(m) == m[1]

\* x || y on strings: the empty string (and undefined, modelled as "") is falsy
OrElse(x, y) == IF x # "" THEN x ELSE y
\* x || 0 on numbers
OrZero(n) == IF n = NoNumber THEN 0 ELSE n

Max(a, b) == IF a >= b THEN a ELSE b

\* ------------------------------------------------------------------
\* Inputs of one merge: the claims of the token, the two profile-store
\* documents and the context asserted by the hosting shell
\* ------------------------------------------------------------------
ClaimsSet ==
    [ organizationId : {"", "org1"},
      role : {"ADMIN", "MEMBER"},
      projectAccess : {<<>>, <<{}>>, <<{"projA"}>>},   \* absent, [], ['projA']
      isOrganizationOwner : BOOLEAN,
      hierarchy : {NoNumber, 30, 60},
      appRoles : {{}, {"EDITOR"}} ]

\* getDoc(doc(db, 'users', uid)): the read fails, or the document is absent,
\* or it has these fields
NoUserDoc(st) == [status |-> st, organizationId |-> "", teamMemberRole |-> ""]
UserDocSet ==
    {NoUserDoc("fail"), NoUserDoc("absent")} \cup
    [status : {"ok"}, organizationId : {"", "org2"}, teamMemberRole : {"", "manager"}]

\* getDoc(doc(db, 'teamMembers', uid))
NoTeamDoc(st) == [status |-> st, organizationId |-> "", role |-> ""]
TeamDocSet ==
    {NoTeamDoc("fail"), NoTeamDoc("absent")} \cup
    [status : {"ok"}, organizationId : {"", "org3"}, role : {"", "admin"}]

HubSet ==
    [ fails : {"none"}, orgId : {"", "null", "org1", "orgX"},
      projectId : {"", "undefined", "projA", "projB"} ]
    \cup [ fails : {"import", "validateOrg", "validateProject"},
           orgId : {"org1", "orgX"}, projectId : {"projA", "projB"} ]

MergeInputs ==
    [ claimsError : {Null},
      claims : ClaimsSet,
      db : {TRUE},
      userDoc : UserDocSet,
      teamDoc : TeamDocSet,
      hub : HubSet ]
    \cup
    [ claimsError : {Null},
      claims : ClaimsSet,
      db : {FALSE},
      userDoc : {NoUserDoc("absent")},
      teamDoc : {NoTeamDoc("absent")},
      hub : HubSet ]

\* ------------------------------------------------------------------
\* shared-firebase-types (external package), by its contract
\* ------------------------------------------------------------------
\* validateHubOrganizationId(userOrgId): the asserted id when it equals the
\* user's own organization id, otherwise null ("" here)
validateHubOrganizationId(hubOrgId, userOrgId) ==
    IF hubOrgId = userOrgId THEN hubOrgId ELSE ""

\* validateHubProjectId(projectAccess, isOwner): the asserted id when the
\* user is owner or the id is in the project-access list, otherwise null
validateHubProjectId(hubProjectId, projectAccess, isOwner) ==
    IF isOwner \/ (~IsNull(projectAccess) /\ hubProjectId \in Val(projectAccess))
    THEN hubProjectId ELSE ""

\* effectiveHierarchy: a function of the role and the explicit hierarchy
RoleHierarchy(role) == IF role = "ADMIN" THEN 50 ELSE 0
EffectiveHierarchy(role, h) ==
    IF h = NoNumber /\ RoleHierarchy(role) = 0 THEN NoNumber
    ELSE Max(RoleHierarchy(role), OrZero(h))

\* createUnifiedUser(firebaseUser, claims, firestoreData)
createUnifiedUser(p, claims, fs) ==
    [ uid |-> p,
      email |-> Email(p),
      role |-> claims.role,
      organizationId |-> OrElse(claims.organizationId,
                                IF IsNull(fs) THEN "" ELSE Val(fs).organizationId),
      projectId |-> "",
      projectAccess |-> claims.projectAccess,
      isOrganizationOwner |-> claims.isOrganizationOwner,
      effectiveHierarchy |-> EffectiveHierarchy(claims.role, claims.hierarchy),
      teamMemberRole |-> IF IsNull(fs) THEN "" ELSE Val(fs).teamMemberRole,
      appRoles |-> claims.appRoles ]

\* ------------------------------------------------------------------
\* createUserFromFirebase
\* ------------------------------------------------------------------
\* the optional profile-store part: firestoreData (undefined = <<>>)
FirestoreData(in) ==
    IF ~in.db THEN <<>>
    ELSE IF in.userDoc.status = "fail" \/ in.teamDoc.status = "fail"
    THEN <<>>                       \* Promise.all rejected, caught, data stays undefined
    ELSE
      LET base == IF in.userDoc.status = "ok"
                  THEN [organizationId |-> in.userDoc.organizationId,
                        teamMemberRole |-> in.userDoc.teamMemberRole]
                  ELSE [organizationId |-> "", teamMemberRole |-> ""]
          team == in.teamDoc
      IN IF team.status = "ok"
         THEN << [organizationId |->
                     IF team.organizationId # "" /\ base.organizationId = ""
                     THEN team.organizationId ELSE base.organizationId,
                  teamMemberRole |->
                     IF team.role # "" /\ base.teamMemberRole = ""
                     THEN team.role ELSE base.teamMemberRole] >>
         ELSE << base >>

\* hubOrgId && hubOrgId !== 'null' && hubOrgId !== 'undefined'
HubAsserted(id) == id # "" /\ id # "null" /\ id # "undefined"

\* (variant: no 'standalone' fallback)
UserClaimOrgIdNoSentinel(claims, fs) ==
    OrElse(claims.organizationId, IF IsNull(fs) THEN "" ELSE Val(fs).organizationId)

\* claims.organizationId || firestoreData?.organizationId || 'standalone'
UserClaimOrgId(claims, fs) ==
    OrElse(OrElse(claims.organizationId,
                  IF IsNull(fs) THEN "" ELSE Val(fs).organizationId),
           Standalone)

\* (variant: the asserted organization id is applied without validation)
HubOrganizationIdUnvalidated(in, fs) ==
    IF in.hub.fails = "none" /\ HubAsserted(in.hub.orgId) THEN in.hub.orgId
    ELSE OrElse(OrElse(in.claims.organizationId,
                       IF IsNull(fs) THEN "" ELSE Val(fs).organizationId),
                Standalone)

\* the organization id the hub-context block leaves in the snapshot
HubOrganizationId(in, fs) ==
    LET userClaimOrgId == UserClaimOrgId(in.claims, fs)
        validatedOrgId == validateHubOrganizationId(in.hub.orgId, userClaimOrgId)
    IN IF in.hub.fails = "import" THEN userClaimOrgId
       ELSE IF HubAsserted(in.hub.orgId)
       THEN IF in.hub.fails = "validateOrg" THEN userClaimOrgId
            ELSE IF in.hub.fails = "validateProject" /\ HubAsserted(in.hub.projectId)
            THEN userClaimOrgId          \* the catch block overwrites it
            ELSE IF validatedOrgId # "" THEN validatedOrgId ELSE userClaimOrgId
       ELSE userClaimOrgId

\* (variant: the asserted project id is applied without validation)
HubProjectIdUnvalidated(in, createdProjectId) ==
    IF in.hub.fails = "none" /\ HubAsserted(in.hub.projectId) THEN in.hub.projectId
    ELSE createdProjectId

\* (variant: the asserted project id is assigned before it is validated, and
\* stays when the validation throws)
HubProjectIdAssignedFirst(in, createdProjectId) ==
    LET validatedProjectId ==
            validateHubProjectId(in.hub.projectId, in.claims.projectAccess,
                                 in.claims.isOrganizationOwner)
    IN IF in.hub.fails = "import" THEN createdProjectId
       ELSE IF in.hub.fails = "validateOrg" /\ HubAsserted(in.hub.orgId)
       THEN createdProjectId
       ELSE IF HubAsserted(in.hub.projectId)
       THEN IF in.hub.fails = "validateProject" THEN in.hub.projectId
            ELSE IF validatedProjectId # "" THEN validatedProjectId
            ELSE createdProjectId
       ELSE createdProjectId

\* the project id the hub-context block leaves in the snapshot
HubProjectId(in, createdProjectId) ==
    LET validatedProjectId ==
            validateHubProjectId(in.hub.projectId, in.claims.projectAccess,
                                 in.claims.isOrganizationOwner)
    IN IF in.hub.fails = "import" THEN createdProjectId
       ELSE IF in.hub.fails = "validateOrg" /\ HubAsserted(in.hub.orgId)
       THEN createdProjectId
       ELSE IF HubAsserted(in.hub.projectId)
       THEN IF in.hub.fails = "validateProject" THEN createdProjectId
            ELSE IF validatedProjectId # "" THEN validatedProjectId
            ELSE createdProjectId
       ELSE createdProjectId

\* (variant: no try / catch around the profile-store reads)
ProfileReadErrorEscapesUncaught(in) ==
    in.db /\ (in.userDoc.status = "fail" \/ in.teamDoc.status = "fail")

\* try { ...getDoc... } catch (error) { console.warn(...) }: whether a failed
\* read leaves the inner block and rejects the merge
ProfileReadErrorEscapes(in) == FALSE

\* the result of the merge: rejected with the claims error, or the user
createUserFromFirebase(p, in) ==
    IF in.claimsError # Null
    THEN [ok |-> FALSE, error |-> in.claimsError, user |-> NullUser]
    ELSE IF ProfileReadErrorEscapes(in)
    THEN [ok |-> FALSE, error |-> "unavailable", user |-> NullUser]
    ELSE LET fs == FirestoreData(in)
             unifiedUser == createUnifiedUser(p, in.claims, fs)
         IN [ok |-> TRUE, error |-> Null,
             user |-> << [unifiedUser EXCEPT
                            !.organizationId = HubOrganizationId(in, fs),
                            !.projectId = HubProjectId(in, unifiedUser.projectId)] >>]

\* ------------------------------------------------------------------
\* Authorization evaluators, over an AuthState
\* ------------------------------------------------------------------
\* (variant: user?.effectiveHierarchy, without the early return)
hasMinimumHierarchyOptionalChain(st, minLevel) ==
    (IF IsNull(st.user) THEN 0 ELSE OrZero(Val(st.user).effectiveHierarchy)) >= minLevel

\* (variant: without the || 0; undefined >= n is false)
hasMinimumHierarchyNoDefault(st, minLevel) ==
    IF IsNull(st.user) THEN FALSE
    ELSE /\ Val(st.user).effectiveHierarchy # NoNumber
         /\ Val(st.user).effectiveHierarchy >= minLevel

hasMinimumHierarchy(st, minLevel) ==
    IF IsNull(st.user) THEN FALSE
    ELSE OrZero(Val(st.user).effectiveHierarchy) >= minLevel

\* (variant: the app roles are not consulted)
hasAnyRolePrimaryOnly(st, roles) ==
    IF IsNull(st.user) THEN FALSE
    ELSE Val(st.user).role # "" /\ Val(st.user).role \in roles

hasAnyRole(st, roles) ==
    IF IsNull(st.user) THEN FALSE
    ELSE \/ (Val(st.user).role # "" /\ Val(st.user).role \in roles)
         \/ \E r \in Val(st.user).appRoles : r \in roles

AdminRoles == {"ADMIN", "OWNER", "MANAGER", "SUPERADMIN"}

\* String.prototype.toUpperCase on the role names of the model
ToUpperCase(str) ==
    CASE str = "admin" -> "ADMIN"
      [] str = "manager" -> "MANAGER"
      [] OTHER -> str

\* (variant: the team role is compared without toUpperCase)
canManageTeamCaseSensitive(st) ==
    IF IsNull(st.user) THEN FALSE
    ELSE \/ OrZero(Val(st.user).effectiveHierarchy) >= 50
         \/ Val(st.user).role \in AdminRoles
         \/ Val(st.user).teamMemberRole \in AdminRoles

canManageTeam(st) ==
    IF IsNull(st.user) THEN FALSE
    ELSE \/ OrZero(Val(st.user).effectiveHierarchy) >= 50
         \/ Val(st.user).role \in AdminRoles
         \/ (Val(st.user).teamMemberRole # ""
             /\ ToUpperCase(Val(st.user).teamMemberRole) \in AdminRoles)

\* (variant: the owner flag is not consulted)
canAccessProjectListOnly(st, projectId) ==
    IF IsNull(st.user) THEN FALSE
    ELSE /\ ~IsNull(Val(st.user).projectAccess)
         /\ projectId \in Val(Val(st.user).projectAccess)

canAccessProject(st, projectId) ==
    IF IsNull(st.user) THEN FALSE
    ELSE \/ Val(st.user).isOrganizationOwner
         \/ (~IsNull(Val(st.user).projectAccess)
             /\ projectId \in Val(Val(st.user).projectAccess))

\* (variant: the hierarchy alone decides)
canModifyProjectHierarchyOnly(st, projectId) ==
    hasMinimumHierarchy(st, 30)

canModifyProject(st, projectId) ==
    canAccessProject(st, projectId) /\ hasMinimumHierarchy(st, 30)

\* ------------------------------------------------------------------
\* Observer registry
\* ------------------------------------------------------------------
Range(seq) == {seq[i] : i \in 1..Len(seq)}

\* listeners.indexOf(callback): 0 when absent
IndexOf(ls, cb) ==
    IF cb \in Range(ls) THEN CHOOSE i \in 1..Len(ls) :
                                ls[i] = cb /\ \A j \in 1..(i-1) : ls[j] # cb
    ELSE 0

\* the unsubscribe closure: indexOf, then splice(index, 1)
Unsubscribe(ls, cb) ==
    LET index == IndexOf(ls, cb)
    IN IF index > 0
       THEN [i \in 1..(Len(ls)-1) |-> IF i < index THEN ls[i] ELSE ls[i+1]]
       ELSE ls

\* a callback that threw out of onAuthStateChange never got its unsubscribe
\* function
HasHandle(cb, bh) == bh[cb] # "throw"

\* what a callback does to the listeners array when it is invoked during a
\* publish: nothing, or it calls an unsubscribe function
CallbackEffect(cb, ls, bh) ==
    CASE bh[cb] = "unsubSelf" -> Unsubscribe(ls, cb)
      [] bh[cb] = "unsubOther" ->
            LET others == {c \in Range(ls) : c # cb /\ HasHandle(c, bh)}
            IN IF others = {} THEN ls
               ELSE Unsubscribe(ls, CHOOSE c \in others : TRUE)
      [] OTHER -> ls

\* (variant: no try / catch around the listener call)
ListenerErrorEscapesUncaught(thrown) == thrown

\* try { listener(...) } catch (error) { console.error(...) }: whether the
\* exception of a listener leaves notifyListeners
ListenerErrorEscapes(thrown) == FALSE

\* Array.prototype.forEach over the live array: the length is read once,
\* index k is visited when it is still present
RECURSIVE ForEach(_, _, _, _, _)
ForEach(k, len, ls, bh, calls) ==
    IF k > len THEN [after |-> ls, calls |-> calls, threw |-> FALSE]
    ELSE IF k > Len(ls) THEN ForEach(k + 1, len, ls, bh, calls)
    ELSE LET cb == ls[k]
         IN IF ListenerErrorEscapes(bh[cb] = "throw")
            THEN [after |-> ls, calls |-> Append(calls, cb), threw |-> TRUE]
            ELSE ForEach(k + 1, len, CallbackEffect(cb, ls, bh), bh,
                         Append(calls, cb))

notifyListeners(ls, bh) == ForEach(1, Len(ls), ls, bh, <<>>)

\* n publishes in a row (one per callback invocation of the provider);
\* before / calls describe the last of them
RECURSIVE PublishTimes(_, _, _, _)
PublishTimes(n, ls, bh, acc) ==
    IF n = 0 THEN acc
    ELSE LET r == notifyListeners(ls, bh)
         IN PublishTimes(n - 1, r.after, bh,
               [before |-> ls, after |-> r.after, calls |-> r.calls,
                threw |-> acc.threw \/ r.threw,
                reached |-> acc.reached + (IF Len(r.calls) > 0 THEN 1 ELSE 0),
                seen |-> acc.seen \cup Range(r.calls)])

Publish(n, ls, bh) ==
    PublishTimes(n, ls, bh, [before |-> ls, after |-> ls, calls |-> <<>>,
                             threw |-> FALSE, reached |-> 0, seen |-> {}])

\* ------------------------------------------------------------------
\* State
\* ------------------------------------------------------------------
VARIABLES
    authState,              \* this.authState
    listeners,              \* this.listeners, in registration order
    unsubscribeAuth,        \* this.unsubscribeAuth: 0 (null) or a subscription id
    isListenerInitialized,  \* this.isListenerInitialized
    authInstance,           \* this.authInstance is set
    binding,                \* initializeAuthListener calls suspended before onAuthStateChanged
    bindingGlobal,          \* those of them whose auth (line 145) is window.firebaseAuth
    subsGlobal,             \* the subscriptions made on window.firebaseAuth
    bindCount,              \* initializeAuthListener calls started so far
    subs,                   \* identity provider: active onAuthStateChanged subscriptions
    currentUser,            \* identity provider: auth.currentUser
    evCount,                \* identity provider: session changes so far
    pending,                \* suspended async calls of the service
    behav,                  \* what each registered callback does when invoked
    mergeIn,                \* the inputs of the merge under study (merge specification)
    latest,                 \* history: principal of the last notification handed to the callback
    pubCount,               \* history: per session transition, publishes that reached a subscriber
    storage,                \* the runtime's window.localStorage: how it behaves
    cacheEntry,             \* localStorage item OFFLINE_TOKEN_KEY
    now,                    \* Date.now()
    provToken,              \* identity provider: the user's current ID token (0: none yet)
    expiryOf,               \* identity provider: the expiry of each token issued
    tokenCalls,             \* suspended getIdToken calls and monitor ticks
    timer,                  \* this.offlineTokenRefreshTimer is set
    tokOp,                  \* history: what the last token operation did
    polling,                \* a setTimeout(checkFirebaseReady, 100) is armed
    globalAuth,             \* window.firebaseAuth is set
    pollCount,              \* history: runs of checkFirebaseReady from a timeout so far
    adapter,                \* UnifiedAuthProvider: whether it is mounted, and its authState
    lastOp,                 \* history: what the last operation on the session or the registry did
    answer                  \* history: the evaluator call made since that operation, and its result

vars == << authState, listeners, unsubscribeAuth, isListenerInitialized,
           authInstance, binding, bindCount, subs, bindingGlobal, subsGlobal,
           currentUser, evCount, pending, behav, mergeIn, latest, pubCount,
           polling, globalAuth, pollCount, adapter, lastOp, answer,
           storage, cacheEntry, now, provToken, expiryOf, tokenCalls, timer, tokOp >>

pollVars == << polling, globalAuth, pollCount >>

tokVars == << storage, cacheEntry, now, provToken, expiryOf, tokenCalls, timer, tokOp >>

svcVars == << unsubscribeAuth, isListenerInitialized, authInstance, binding,
              bindCount, bindingGlobal, subsGlobal >>

LoadingState ==
    [user |-> NullUser, firebaseUser |-> Null, isAuthenticated |-> FALSE,
     isLoading |-> TRUE, error |-> Null]

UnauthenticatedState ==
    [user |-> NullUser, firebaseUser |-> Null, isAuthenticated |-> FALSE,
     isLoading |-> FALSE, error |-> Null]

AuthenticatedState(unifiedUser, firebaseUser) ==
    [user |-> unifiedUser, firebaseUser |-> firebaseUser, isAuthenticated |-> TRUE,
     isLoading |-> FALSE, error |-> Null]

\* (variant: the error state drops the principal)
ErrorStateNoPrincipal(firebaseUser, message) ==
    [user |-> NullUser, firebaseUser |-> Null, isAuthenticated |-> FALSE,
     isLoading |-> FALSE, error |-> OrElse(message, "Failed to create user")]

\* error.message || 'Failed to create user'
ErrorState(firebaseUser, message) ==
    [user |-> NullUser, firebaseUser |-> firebaseUser, isAuthenticated |-> FALSE,
     isLoading |-> FALSE, error |-> OrElse(message, "Failed to create user")]

\* the state the onAuthStateChanged callback assigns once the merge settled
ListenerState(firebaseUser, res) ==
    IF res.ok THEN AuthenticatedState(res.user, firebaseUser)
    ELSE ErrorState(firebaseUser, res.error)

\* (variant: the sign-out branch keeps the snapshot and the principal)
SignedOutStateKeepsUser ==
    [authState EXCEPT !.isAuthenticated = FALSE, !.isLoading = FALSE, !.error = Null]

\* the state the callback assigns for a null principal
SignedOutState == UnauthenticatedState

\* (variant: the catch of login does not rethrow)
LoginOutcomeSwallowed(res) == [resolved |-> TRUE, value |-> res.user]

\* login: return unifiedUser, or throw error out of the catch
LoginOutcome(res) ==
    IF res.ok THEN [resolved |-> TRUE, value |-> res.user]
    ELSE [resolved |-> FALSE, value |-> NullUser]

\* logout: returns, or throw error out of the catch
LogoutOutcome(ok) == [resolved |-> ok, value |-> NullUser]

\* (variant: the catch of login also drops the snapshot)
LoginStateDropsSnapshot(st, firebaseUser, res) ==
    IF res.ok THEN AuthenticatedState(res.user, firebaseUser)
    ELSE [st EXCEPT !.error = OrElse(res.error, "Login failed"), !.user = NullUser]

\* (variant: the catch of login assigns a whole error state)
LoginStateResets(st, firebaseUser, res) ==
    IF res.ok THEN AuthenticatedState(res.user, firebaseUser)
    ELSE [user |-> NullUser, firebaseUser |-> Null, isAuthenticated |-> FALSE,
          isLoading |-> FALSE, error |-> OrElse(res.error, "Login failed")]

\* login: the state after the merge settled (the catch only sets error)
LoginState(st, firebaseUser, res) ==
    IF res.ok THEN AuthenticatedState(res.user, firebaseUser)
    ELSE [st EXCEPT !.error = OrElse(res.error, "Login failed")]

\* { ...this.authState }: the copy handed to a callback by notifyListeners
StateCopy(st) == st

\* (variant: the subscriber is handed the initial state)
ImmediateDeliveryInitial(st) == LoadingState

\* callback({ ...this.authState }) of onAuthStateChange
ImmediateDelivery(st) == st

\* ------------------------------------------------------------------
\* UnifiedAuthProvider (UnifiedAuthContext.tsx)
\* ------------------------------------------------------------------
\* useState<AuthState>({... isLoading: true ...}) of a provider not yet mounted
AdapterUnmounted == [mounted |-> FALSE, authState |-> LoadingState]

\* st.user?.email (undefined = "")
EmailOf(st) == IF IsNull(st.user) THEN "" ELSE Val(st.user).email

\* the updater handed to setAuthState: prevState when the four compared
\* fields are equal, otherwise newState
setAuthState(prevState, newState) ==
    IF /\ prevState.isAuthenticated = newState.isAuthenticated
       /\ EmailOf(prevState) = EmailOf(newState)
       /\ prevState.isLoading = newState.isLoading
       /\ prevState.error = newState.error
    THEN prevState
    ELSE newState

\* the provider's callback was among the callbacks a publish invoked
AdapterAfterPublish(ad, seen, newState) ==
    IF AdapterCallback \in seen
    THEN [ad EXCEPT !.authState = setAuthState(ad.authState, newState)]
    ELSE ad

\* the provider's own utilities, computed from its authState
AdapterIsOrganizationOwner(st) ==
    IF IsNull(st.user) THEN FALSE ELSE Val(st.user).isOrganizationOwner

\* ------------------------------------------------------------------
\* Inputs the specifications draw
\* ------------------------------------------------------------------
ErrorMessages == {"", "network-error"}

NoClaims ==
    [organizationId |-> "", role |-> "MEMBER", projectAccess |-> <<>>,
     isOrganizationOwner |-> FALSE, hierarchy |-> NoNumber, appRoles |-> {}]
NoHub == [fails |-> "none", orgId |-> "", projectId |-> ""]

\* getIdTokenResult rejects with an error carrying this message
FailedInputs ==
    [ claimsError : ErrorMessages, claims : {NoClaims}, db : {FALSE},
      userDoc : {NoUserDoc("absent")}, teamDoc : {NoTeamDoc("absent")},
      hub : {NoHub} ]

\* the merges of the session specification: a tenant user and a standalone
\* user, with and without a (rejected) asserted context, and the failures
SessionInputs ==
    {in \in MergeInputs :
        /\ in.claims = [NoClaims EXCEPT !.organizationId = in.claims.organizationId]
        /\ ~in.db
        /\ in.hub \in {NoHub, [fails |-> "none", orgId |-> "orgX", projectId |-> "projB"]}}
    \cup FailedInputs

\* ------------------------------------------------------------------
\* History helpers
\* ------------------------------------------------------------------
NoPublish == Publish(0, listeners, behav)

\* op: the operation; principal / cb: its argument; ok: whether it succeeded;
\* notified: callback invocations by the provider; publishes: notifyListeners
\* calls; before / calls: the listeners array before the last publish and the
\* callbacks it invoked; threw: an exception left the handler; delivered: the
\* state handed to the callbacks; returned: how the promise of login / logout
\* settled
NoOutcome == [resolved |-> TRUE, value |-> NullUser]

Op(op, principal, cb, ok, notified, publishes, r, tid, st) ==
    [op |-> op, principal |-> principal, cb |-> cb, ok |-> ok,
     notified |-> notified, publishes |-> publishes, before |-> r.before,
     calls |-> r.calls, threw |-> r.threw, tid |-> tid, delivered |-> st,
     returned |-> NoOutcome]

\* callbacks that are no longer registered forget their behaviour
Normalised(bh, ls) == [c \in Registrants |-> IF c \in Range(ls) THEN bh[c] ELSE "ok"]

\* no evaluator was called since the last operation
NoAnswer ==
    [fn |-> "", minLevel |-> 0, roles |-> {}, projectId |-> "", result |-> FALSE]

\* one publish of the new state: notifyListeners(); outcome: how the call
\* that published settles
PublishingWith(op, principal, ok, tid, outcome) ==
    LET r == Publish(1, listeners, behav)
    IN /\ listeners' = r.after
       /\ answer' = NoAnswer
       /\ behav' = Normalised(behav, r.after)
       /\ pubCount' = IF tid > 0 THEN [pubCount EXCEPT ![tid] = @ + r.reached]
                      ELSE pubCount
       /\ lastOp' = [Op(op, principal, "", ok, 0, 1, r, tid, StateCopy(authState'))
                        EXCEPT !.returned = outcome]
       /\ adapter' = AdapterAfterPublish(adapter, r.seen, StateCopy(authState'))
       /\ UNCHANGED << pollVars, tokVars >>

Publishing(op, principal, ok, tid) ==
    PublishingWith(op, principal, ok, tid, NoOutcome)

\* a step that publishes nothing
SilentWith(op, principal, cb, ok, outcome) ==
    /\ lastOp' = [Op(op, principal, cb, ok, 0, 0, NoPublish, 0, LoadingState)
                    EXCEPT !.returned = outcome]
    /\ answer' = NoAnswer
    /\ UNCHANGED << listeners, behav, adapter >>

Silent(op, principal, cb, ok) == SilentWith(op, principal, cb, ok, NoOutcome)

\* ------------------------------------------------------------------
\* Token cache values
\* ------------------------------------------------------------------
NullToken == 0                   \* JS null where a token is expected; also a missing field
OldToken == MaxTokens + 1        \* a token cached by an earlier session
Tokens == 1..MaxTokens
TokenLifetime == 2               \* the provider's tokens expire this long after issue
RefreshWindow == 1               \* refreshWindowSeconds, in ticks of the clock

\* window undefined; window without localStorage; a localStorage whose every
\* access throws; a working one
StorageModes == {"nowindow", "nostorage", "throws", "ok"}

AbsentEntry == [kind |-> "absent", token |-> 0, expiresAt |-> 0]
CorruptEntry == [kind |-> "corrupt", token |-> 0, expiresAt |-> 0]
Entry(token, expiresAt) == [kind |-> "entry", token |-> token, expiresAt |-> expiresAt]

NoTokOp ==
    [op |-> "", user |-> Null, done |-> FALSE, result |-> NullToken,
     granted |-> NullToken, outcome |-> "", valid |-> FALSE,
     cacheBefore |-> AbsentEntry, issuedBefore |-> 0, callsBefore |-> 0,
     at |-> 0]

\* no token operation has run
TokenIdle ==
    /\ cacheEntry = AbsentEntry
    /\ now = 0
    /\ provToken = 0
    /\ expiryOf = <<>>
    /\ tokenCalls = <<>>
    /\ timer = FALSE
    /\ tokOp = NoTokOp

Init ==
    /\ authState = LoadingState
    /\ listeners = <<>>
    /\ unsubscribeAuth = 0
    /\ isListenerInitialized = FALSE
    /\ authInstance = FALSE
    /\ binding = 0
    /\ bindCount = 0
    /\ subs = {}
    /\ currentUser = Null
    /\ evCount = 0
    /\ pending = <<>>
    /\ behav = [c \in Registrants |-> "ok"]
    /\ mergeIn = [claimsError |-> Null, claims |-> NoClaims, db |-> FALSE,
                  userDoc |-> NoUserDoc("absent"), teamDoc |-> NoTeamDoc("absent"),
                  hub |-> NoHub]
    /\ latest = Null
    /\ pubCount = <<>>
    /\ lastOp = [op |-> "init", principal |-> Null, cb |-> "", ok |-> TRUE,
                 notified |-> 0, publishes |-> 0, before |-> <<>>, calls |-> <<>>,
                 threw |-> FALSE, tid |-> 0, delivered |-> LoadingState,
                 returned |-> NoOutcome]
    /\ answer = NoAnswer
    /\ storage = "nowindow" /\ TokenIdle
    /\ polling = FALSE /\ globalAuth = FALSE /\ pollCount = 0
    /\ bindingGlobal = 0 /\ subsGlobal = {}
    /\ adapter = AdapterUnmounted

\* ------------------------------------------------------------------
\* Identity provider (firebase/auth), as the service sees it
\* ------------------------------------------------------------------
\* getAuth() does not throw: an instance was injected, or the global is set
AuthAvailable == authInstance \/ globalAuth

\* The provider reports a session change (or, to a new subscription, the
\* current user) by invoking the onAuthStateChanged callback of each of the k
\* subscriptions concerned.  The callback handles a null principal at once
\* (state assigned, published); with a principal it suspends in
\* createUserFromFirebase.  more: the suspended call of the operation that
\* made the change (login, logout).
Notified(op, u, k, more) ==
    LET tid == Len(pubCount) + 1
        r == Publish(IF u = Null THEN k ELSE 0, listeners, behav)
        merges == IF u = Null THEN <<>>
                  ELSE [i \in 1..k |-> [op |-> "listener", principal |-> u, tid |-> tid]]
    IN /\ pending' = pending \o merges \o more
       /\ Len(pending') <= MaxPending
       /\ latest' = IF k > 0 THEN u ELSE latest
       /\ authState' = IF u = Null /\ k > 0 THEN SignedOutState ELSE authState
       /\ listeners' = r.after
       /\ behav' = Normalised(behav, r.after)
       /\ pubCount' = Append(pubCount, r.reached)
       /\ lastOp' = Op(op, u, "", TRUE, k, IF u = Null THEN k ELSE 0, r, tid,
                       IF u = Null /\ k > 0 THEN StateCopy(authState') ELSE LoadingState)
       /\ adapter' = AdapterAfterPublish(adapter, r.seen, StateCopy(authState'))
       /\ answer' = NoAnswer
       /\ UNCHANGED << pollVars, tokVars >>

\* the session changes outside the service (another tab, hub SSO, expiry)
ProviderChange(u) ==
    /\ evCount < MaxEvents
    /\ u # currentUser
    /\ currentUser' = u
    /\ evCount' = evCount + 1
    /\ Notified("providerChange", u, Cardinality(subs), <<>>)
    /\ UNCHANGED << svcVars, subs, mergeIn >>

\* ------------------------------------------------------------------
\* Binding to the identity provider
\* ------------------------------------------------------------------
\* getAuth(): Injected > Global > Error
getAuth(injected, global) ==
    IF injected THEN "injected" ELSE IF global THEN "global" ELSE "throw"

\* initialize(auth, firestore), up to the first await of initializeAuthListener
\* (which returns at once when isListenerInitialized is set)
Initialize ==
    /\ authInstance' = TRUE
    /\ unsubscribeAuth' = 0
    /\ subs' = subs \ {unsubscribeAuth}
    /\ subsGlobal' = subsGlobal \ {unsubscribeAuth}
    /\ isListenerInitialized' = IF unsubscribeAuth # 0 THEN FALSE
                                ELSE isListenerInitialized
    /\ IF ~isListenerInitialized'
       THEN /\ bindCount < MaxBindings
            /\ binding' = binding + 1 /\ bindCount' = bindCount + 1
            /\ bindingGlobal' = bindingGlobal +
                    (IF getAuth(TRUE, globalAuth) = "global" THEN 1 ELSE 0)
       ELSE UNCHANGED << binding, bindCount, bindingGlobal >>
    /\ Silent("initialize", Null, "", TRUE)
    /\ UNCHANGED << pollVars, tokVars >>
    /\ UNCHANGED << authState, currentUser, evCount, pending,
                    mergeIn, latest, pubCount >>

\* initializeAuthListener after its awaits: onAuthStateChanged(auth, callback);
\* the provider reports the current user to the new subscription
BindComplete ==
    /\ binding > 0
    /\ \E onGlobal \in BOOLEAN :
        /\ IF onGlobal THEN bindingGlobal > 0 ELSE binding > bindingGlobal
        /\ LET id == CHOOSE i \in 1..(MaxBindings + 1) : i \notin subs
           IN /\ subs' = subs \cup {id}
              /\ unsubscribeAuth' = id
              /\ subsGlobal' = IF onGlobal THEN subsGlobal \cup {id} ELSE subsGlobal
        /\ bindingGlobal' = bindingGlobal - (IF onGlobal THEN 1 ELSE 0)
    /\ isListenerInitialized' = TRUE
    /\ binding' = binding - 1
    /\ Notified("bind", currentUser, 1, <<>>)
    /\ UNCHANGED << authInstance, bindCount, currentUser,
                    evCount, mergeIn >>

\* checkFirebaseReady, run from its timeout: it ends when an instance was
\* injected, starts initializeAuthListener when the global is set, and
\* otherwise arms the next timeout
\* (variant: no 'if (this.authInstance) return' at the head of the tick)
RetryArmedIgnoringInjection(injected, global) == ~global

\* checkFirebaseReady arms the next timeout: nothing injected, no global
RetryArmed(injected, global) == ~injected /\ ~global

checkFirebaseReady ==
    /\ polling
    /\ pollCount < MaxPolls
    /\ pollCount' = pollCount + 1
    /\ polling' = RetryArmed(authInstance, globalAuth)
    /\ IF ~authInstance /\ globalAuth /\ ~isListenerInitialized
       THEN /\ bindCount < MaxBindings
            /\ binding' = binding + 1 /\ bindCount' = bindCount + 1
            /\ bindingGlobal' = bindingGlobal +
                    (IF getAuth(authInstance, globalAuth) = "global" THEN 1 ELSE 0)
       ELSE UNCHANGED << binding, bindCount, bindingGlobal >>
    /\ Silent("checkFirebaseReady", Null, "", TRUE)
    /\ UNCHANGED << authState, unsubscribeAuth, isListenerInitialized, authInstance,
                    subs, subsGlobal, currentUser, evCount, pending, mergeIn, latest,
                    pubCount, globalAuth, tokVars >>

\* the host page sets window.firebaseAuth
GlobalAuthAppears ==
    /\ ~globalAuth
    /\ globalAuth' = TRUE
    /\ Silent("globalAuth", Null, "", TRUE)
    /\ UNCHANGED << authState, svcVars, subs, currentUser, evCount, pending,
                    mergeIn, latest, pubCount, polling, pollCount, tokVars >>

\* destroy()
Destroy ==
    /\ subs' = subs \ {unsubscribeAuth}
    /\ subsGlobal' = subsGlobal \ {unsubscribeAuth}
    /\ unsubscribeAuth' = 0
    /\ listeners' = <<>>
    /\ behav' = Normalised(behav, <<>>)
    /\ authState' = UnauthenticatedState
    /\ lastOp' = Op("destroy", Null, "", TRUE, 0, 0, Publish(0, <<>>, behav), 0,
                    LoadingState)
    /\ answer' = NoAnswer
    /\ UNCHANGED adapter
    /\ UNCHANGED << pollVars, tokVars >>
    /\ UNCHANGED << isListenerInitialized, authInstance, binding, bindingGlobal,
                    bindCount, currentUser, evCount, pending, mergeIn,
                    latest, pubCount >>

\* ------------------------------------------------------------------
\* Session state machine: the settling of a merge
\* ------------------------------------------------------------------
Without(seq, i) == [k \in 1..(Len(seq)-1) |-> IF k < i THEN seq[k] ELSE seq[k+1]]

\* whether the awaits of createUserFromFirebase ever return: getIdTokenResult
\* settles; a getDoc with status "hang" never does and nothing times it out,
\* so Promise.all settles only when the other read rejects
MergeReturns(in) ==
    \/ in.claimsError # Null
    \/ ~in.db
    \/ (in.userDoc.status # "hang" /\ in.teamDoc.status # "hang")
    \/ in.userDoc.status = "fail" \/ in.teamDoc.status = "fail"

\* the merge of a notification settles: the callback assigns the state and
\* publishes
ListenerMergeDone(i, in) ==
    /\ i \in 1..Len(pending)
    /\ pending[i].op = "listener"
    /\ MergeReturns(in)
    /\ LET c == pending[i]
           res == createUserFromFirebase(c.principal, in)
       IN /\ authState' = ListenerState(c.principal, res)
          /\ Publishing("listenerDone", c.principal, res.ok, c.tid)
    /\ pending' = Without(pending, i)
    /\ UNCHANGED << svcVars, subs, currentUser, evCount, mergeIn, latest >>

\* ------------------------------------------------------------------
\* login / logout
\* ------------------------------------------------------------------
\* login(credentials) up to its suspension in createUserFromFirebase, or,
\* when signInWithEmailAndPassword rejects, to its end
LoginStart(p, ok, message) ==
    /\ AuthAvailable
    /\ evCount < MaxEvents
    /\ evCount' = evCount + 1
    /\ IF ok
       THEN /\ currentUser' = p
            /\ Notified("loginStart", p,
                        IF p # currentUser THEN Cardinality(subs) ELSE 0,
                        << [op |-> "login", principal |-> p,
                            tid |-> Len(pubCount) + 1] >>)
       ELSE /\ authState' = LoginState(authState, p,
                                       [ok |-> FALSE, error |-> message,
                                        user |-> NullUser])
            /\ PublishingWith("loginDone", p, FALSE, 0,
                              LoginOutcome([ok |-> FALSE, error |-> message,
                                            user |-> NullUser]))
            /\ UNCHANGED << currentUser, pending, latest >>
    /\ UNCHANGED << svcVars, subs, mergeIn >>

\* the merge of login settles
LoginMergeDone(i, in) ==
    /\ i \in 1..Len(pending)
    /\ pending[i].op = "login"
    /\ MergeReturns(in)
    /\ LET c == pending[i]
           res == createUserFromFirebase(c.principal, in)
       IN /\ authState' = LoginState(authState, c.principal, res)
          /\ PublishingWith("loginDone", c.principal, res.ok, c.tid, LoginOutcome(res))
    /\ pending' = Without(pending, i)
    /\ UNCHANGED << svcVars, subs, currentUser, evCount, mergeIn, latest >>

\* logout() up to the settling of signOut
LogoutStart(ok) ==
    /\ AuthAvailable
    /\ evCount < MaxEvents
    /\ evCount' = evCount + 1
    /\ IF ok
       THEN /\ currentUser' = Null
            /\ Notified("logoutStart", Null,
                        IF currentUser # Null THEN Cardinality(subs) ELSE 0,
                        << [op |-> "logout", principal |-> Null,
                            tid |-> Len(pubCount) + 1] >>)
       ELSE /\ SilentWith("logoutDone", Null, "", FALSE, LogoutOutcome(FALSE))
            /\ UNCHANGED << authState, currentUser, pending, latest, pubCount,
                            pollVars, tokVars >>
    /\ UNCHANGED << svcVars, subs, mergeIn >>

\* login(credentials) / logout() while no instance is injected and no global
\* is set: getAuth() throws before the try, the promise rejects
LoginWithoutAuth(p) ==
    /\ ~AuthAvailable
    /\ SilentWith("loginDone", p, "", FALSE,
                  LoginOutcome([ok |-> FALSE, error |-> "", user |-> NullUser]))
    /\ UNCHANGED << authState, svcVars, subs, currentUser, evCount, pending,
                    mergeIn, latest, pubCount, pollVars, tokVars >>

LogoutWithoutAuth ==
    /\ ~AuthAvailable
    /\ SilentWith("logoutDone", Null, "", FALSE, LogoutOutcome(FALSE))
    /\ UNCHANGED << authState, svcVars, subs, currentUser, evCount, pending,
                    mergeIn, latest, pubCount, pollVars, tokVars >>

\* logout() after signOut resolved
LogoutDone(i) ==
    /\ i \in 1..Len(pending)
    /\ pending[i].op = "logout"
    /\ authState' = UnauthenticatedState
    /\ PublishingWith("logoutDone", Null, TRUE, pending[i].tid, LogoutOutcome(TRUE))
    /\ pending' = Without(pending, i)
    /\ UNCHANGED << svcVars, subs, currentUser, evCount, mergeIn, latest >>

\* ------------------------------------------------------------------
\* Observer registry operations
\* ------------------------------------------------------------------
\* the behaviours the model gives a callback
BehavioursOf(cb) == IF cb = "cbA" THEN Behaviours ELSE {"ok", "throw"}

\* onAuthStateChange(callback): push, immediate delivery, unsubscribe closure;
\* a callback that throws leaves the call before the closure is returned
onAuthStateChange(cb, b) ==
    /\ Len(listeners) < MaxListeners
    /\ b \in BehavioursOf(cb)
    /\ cb \in Range(listeners) => b = behav[cb]
    /\ adapter' = IF cb = AdapterCallback
                  THEN [mounted |-> TRUE,
                        authState |-> setAuthState(adapter.authState,
                                                   ImmediateDelivery(authState))]
                  ELSE adapter
    /\ listeners' = Append(listeners, cb)
    /\ behav' = [behav EXCEPT ![cb] = b]
    /\ lastOp' = Op("subscribe", Null, cb, b # "throw", 0, 0,
                    [before |-> listeners, calls |-> << cb >>, threw |-> b = "throw"],
                    0, ImmediateDelivery(authState))
    /\ answer' = NoAnswer
    /\ UNCHANGED << pollVars, tokVars >>
    /\ UNCHANGED << authState, svcVars, subs, currentUser, evCount, pending,
                    mergeIn, latest, pubCount >>

\* a caller invokes the unsubscribe function of a registered callback
UnsubscribeCall(cb) ==
    /\ cb \in Range(listeners)
    /\ HasHandle(cb, behav)
    /\ listeners' = Unsubscribe(listeners, cb)
    /\ behav' = Normalised(behav, listeners')
    /\ lastOp' = Op("unsubscribe", Null, cb, TRUE, 0, 0, NoPublish, 0, LoadingState)
    /\ answer' = NoAnswer
    /\ UNCHANGED adapter
    /\ UNCHANGED << pollVars, tokVars >>
    /\ UNCHANGED << authState, svcVars, subs, currentUser, evCount, pending,
                    mergeIn, latest, pubCount >>

\* a caller invokes again the unsubscribe function it has just invoked
UnsubscribeAgain(cb) ==
    /\ lastOp.op \in {"unsubscribe", "unsubscribeAgain"}
    /\ lastOp.cb = cb
    /\ listeners' = Unsubscribe(listeners, cb)
    /\ behav' = Normalised(behav, listeners')
    /\ lastOp' = Op("unsubscribeAgain", Null, cb, TRUE, 0, 0, NoPublish, 0,
                    LoadingState)
    /\ answer' = NoAnswer
    /\ UNCHANGED adapter
    /\ UNCHANGED << pollVars, tokVars >>
    /\ UNCHANGED << authState, svcVars, subs, currentUser, evCount, pending,
                    mergeIn, latest, pubCount >>

\* UnifiedAuthProvider mounts: its effect subscribes to the service and is
\* handed the current state at once
AdapterMount ==
    /\ ~adapter.mounted
    /\ onAuthStateChange(AdapterCallback, "ok")

\* ------------------------------------------------------------------
\* Token lifecycle: getIdToken, the offline cache, the refresh monitor
\* ------------------------------------------------------------------
sessionVars == << authState, listeners, svcVars, subs, currentUser, evCount,
                  pending, behav, mergeIn, latest, pubCount, lastOp, answer,
                  pollVars, adapter >>

\* (variant: the item is written only when there is none yet)
storeTokenForOfflineKeepFirst(mode, entry, token, expiresAt) ==
    IF mode = "ok" /\ entry.kind = "absent" THEN Entry(token, expiresAt) ELSE entry

\* storeTokenForOffline(token, expiresAt): the item afterwards
storeTokenForOffline(mode, entry, token, expiresAt) ==
    IF mode = "ok" THEN Entry(token, expiresAt)
    ELSE entry          \* no window / no localStorage: return; a throw is caught

\* (variant: the expiry is not compared with the clock)
getStoredTokenIgnoringExpiry(mode, entry, t) ==
    IF mode # "ok" THEN NullToken
    ELSE IF entry.kind # "entry" THEN NullToken
    ELSE IF entry.token = 0 \/ entry.expiresAt = 0 THEN NullToken
    ELSE entry.token

\* getStoredToken()
getStoredToken(mode, entry, t) ==
    IF mode \in {"nowindow", "nostorage"} THEN NullToken
    ELSE IF mode = "throws" THEN NullToken           \* caught
    ELSE IF entry.kind = "absent" THEN NullToken     \* !raw
    ELSE IF entry.kind = "corrupt" THEN NullToken    \* JSON.parse throws, caught
    ELSE IF entry.token = 0 \/ entry.expiresAt = 0 THEN NullToken
    ELSE IF t >= entry.expiresAt THEN NullToken
    ELSE entry.token

\* isStoredTokenValid()
isStoredTokenValid(mode, entry, t) == getStoredToken(mode, entry, t) # NullToken

\* (variant: the provider is asked also without a current user)
NeedsProviderAlways(user) == TRUE

\* getIdToken: const user = auth.currentUser; if (!user) return null
NeedsProvider(user) == user # Null

\* (variant: the token is returned only when it was cached)
ReturnAfterCacheOnlyIfStored(token, stored) == IF stored THEN token ELSE NullToken

\* getIdToken: return token, after the best-effort cache step
ReturnAfterCache(token, stored) == token

\* the provider's getIdToken(user, forceRefresh): a new token when forced,
\* when there is none yet or when the current one has expired
ProviderIssues(force) ==
    force \/ provToken = 0 \/ now >= expiryOf[provToken]

ProviderToken(force) ==
    IF ProviderIssues(force) THEN Len(expiryOf) + 1 ELSE provToken

ProviderExpiries(force) ==
    IF ProviderIssues(force) THEN Append(expiryOf, now + TokenLifetime) ELSE expiryOf

TokOp(op, user, done, result, granted, outcome) ==
    [op |-> op, user |-> user, done |-> done, result |-> result,
     granted |-> granted, outcome |-> outcome, valid |-> FALSE,
     cacheBefore |-> cacheEntry, issuedBefore |-> Len(expiryOf),
     callsBefore |-> Len(tokenCalls), at |-> 0]

\* getIdToken(forceRefresh) up to its first await, or to its return of null
GetIdTokenStart(force) ==
    /\ AuthAvailable
    /\ IF NeedsProvider(currentUser)
       THEN /\ Len(tokenCalls) < MaxCalls
            /\ tokenCalls' = Append(tokenCalls,
                    [who |-> "getIdToken", pc |-> "token", user |-> currentUser,
                     force |-> force, token |-> NullToken, granted |-> NullToken])
            /\ tokOp' = TokOp("getIdToken", currentUser, FALSE, NullToken, NullToken, "")
       ELSE /\ tokOp' = TokOp("getIdToken", currentUser, TRUE, NullToken, NullToken, "")
            /\ UNCHANGED tokenCalls
    /\ UNCHANGED << sessionVars, storage, cacheEntry, now, provToken, expiryOf, timer >>

\* await getIdToken(user, forceRefresh) settles: the token, or the catch that
\* returns null
TokenSettles(i, ok) ==
    /\ i \in 1..Len(tokenCalls)
    /\ tokenCalls[i].pc = "token"
    /\ LET c == tokenCalls[i]
       IN IF ok
          THEN /\ ProviderIssues(c.force) => Len(expiryOf) < MaxTokens
               /\ provToken' = ProviderToken(c.force)
               /\ expiryOf' = ProviderExpiries(c.force)
               /\ tokenCalls' = [tokenCalls EXCEPT ![i] =
                      [c EXCEPT !.pc = "expiry", !.token = provToken',
                                !.granted = provToken']]
               /\ tokOp' = TokOp(c.who, c.user, FALSE, NullToken, provToken', "")
          ELSE /\ tokenCalls' = Without(tokenCalls, i)
               /\ tokOp' = TokOp(c.who, c.user, TRUE, NullToken, NullToken, "failed")
               /\ UNCHANGED << provToken, expiryOf >>
    /\ UNCHANGED << sessionVars, storage, cacheEntry, now, timer >>

\* the outcomes of await getIdTokenResult(user) and Date.parse: a finite
\* expiry, a rejection, an expirationTime that does not parse
ExpiryOutcomes == {"finite", "rejected", "nan"}

\* the cache step of getIdToken settles and getIdToken returns
ExpirySettles(i, outcome) ==
    /\ i \in 1..Len(tokenCalls)
    /\ tokenCalls[i].pc = "expiry"
    /\ outcome \in ExpiryOutcomes
    /\ LET c == tokenCalls[i]
           refreshed == outcome # "rejected" /\ ProviderIssues(FALSE)
       IN /\ refreshed => Len(expiryOf) < MaxTokens
          /\ provToken' = (IF refreshed THEN ProviderToken(FALSE) ELSE provToken)
          /\ expiryOf' = (IF refreshed THEN ProviderExpiries(FALSE) ELSE expiryOf)
          /\ cacheEntry' =
                IF outcome = "finite"
                THEN storeTokenForOffline(storage, cacheEntry, c.token,
                                          expiryOf'[provToken'])
                ELSE cacheEntry
          /\ tokenCalls' = Without(tokenCalls, i)
          /\ tokOp' = TokOp(c.who, c.user, TRUE,
                            ReturnAfterCache(c.token,
                                             outcome = "finite" /\ storage = "ok"),
                            c.granted, outcome)
    /\ UNCHANGED << sessionVars, storage, now, timer >>

\* startTokenRefreshMonitor()
startTokenRefreshMonitor ==
    /\ ~timer
    /\ storage # "nowindow"
    /\ timer' = TRUE
    /\ tokOp' = TokOp("startTokenRefreshMonitor", currentUser, TRUE, NullToken,
                      NullToken, "")
    /\ UNCHANGED << sessionVars, storage, cacheEntry, now, provToken, expiryOf,
                    tokenCalls >>

\* stopTokenRefreshMonitor(): callbacks already awaiting run on
stopTokenRefreshMonitor ==
    /\ timer
    /\ timer' = FALSE
    /\ tokOp' = TokOp("stopTokenRefreshMonitor", currentUser, TRUE, NullToken,
                      NullToken, "")
    /\ UNCHANGED << sessionVars, storage, cacheEntry, now, provToken, expiryOf,
                    tokenCalls >>

\* the interval callback up to its await of getIdTokenResult
MonitorTick ==
    /\ timer
    /\ AuthAvailable
    /\ currentUser # Null
    /\ Len(tokenCalls) < MaxCalls
    /\ tokenCalls' = Append(tokenCalls,
            [who |-> "monitor", pc |-> "tickExpiry", user |-> currentUser,
             force |-> TRUE, token |-> NullToken, granted |-> NullToken])
    /\ tokOp' = TokOp("monitor", currentUser, FALSE, NullToken, NullToken, "")
    /\ UNCHANGED << sessionVars, storage, cacheEntry, now, provToken, expiryOf, timer >>

\* the interval callback after getIdTokenResult: within the window of the
\* expiry it calls getIdToken(true), which reads auth.currentUser again
MonitorExpirySettles(i, outcome) ==
    /\ i \in 1..Len(tokenCalls)
    /\ tokenCalls[i].pc = "tickExpiry"
    /\ outcome \in ExpiryOutcomes
    /\ LET c == tokenCalls[i]
           refreshed == outcome # "rejected" /\ ProviderIssues(FALSE)
       IN /\ refreshed => Len(expiryOf) < MaxTokens
          /\ provToken' = (IF refreshed THEN ProviderToken(FALSE) ELSE provToken)
          /\ expiryOf' = (IF refreshed THEN ProviderExpiries(FALSE) ELSE expiryOf)
          /\ IF /\ outcome = "finite"
                /\ expiryOf'[provToken'] - now <= RefreshWindow
                /\ NeedsProvider(currentUser)
             THEN tokenCalls' = [tokenCalls EXCEPT ![i] =
                                    [c EXCEPT !.pc = "token", !.user = currentUser]]
             ELSE tokenCalls' = Without(tokenCalls, i)
          /\ tokOp' = TokOp("monitor", c.user, FALSE, NullToken, NullToken, outcome)
    /\ UNCHANGED << sessionVars, storage, cacheEntry, now, timer >>

\* time passes
ClockTick ==
    /\ now < MaxTime
    /\ now' = now + 1
    /\ UNCHANGED << sessionVars, storage, cacheEntry, provToken, expiryOf,
                    tokenCalls, timer, tokOp >>

\* a caller stores a token: storeTokenForOffline(token, expiresAt)
CallStoreTokenForOffline(token, expiresAt) ==
    /\ cacheEntry' = storeTokenForOffline(storage, cacheEntry, token, expiresAt)
    /\ tokOp' = TokOp("storeTokenForOffline", currentUser, TRUE, NullToken,
                      NullToken, "")
    /\ UNCHANGED << sessionVars, storage, now, provToken, expiryOf, tokenCalls, timer >>

\* a caller reads the cache: getStoredToken() and isStoredTokenValid()
CallGetStoredToken ==
    /\ tokOp' = [TokOp("getStoredToken", currentUser, TRUE,
                       getStoredToken(storage, cacheEntry, now), NullToken, "")
                   EXCEPT !.valid = isStoredTokenValid(storage, cacheEntry, now),
                          !.at = now]
    /\ UNCHANGED << sessionVars, storage, cacheEntry, now, provToken, expiryOf,
                    tokenCalls, timer >>

\* ------------------------------------------------------------------
\* Calls of the authorization evaluators on the service
\* ------------------------------------------------------------------
\* the arrays of role names passed to hasAnyRole
RoleLists == {{}, {"ADMIN"}, {"EDITOR"}, {"MEMBER", "EDITOR"}}

\* an evaluator reads this.authState.user and returns; nothing is assigned
Evaluated(a) ==
    /\ answer' = a
    /\ UNCHANGED << authState, listeners, svcVars, subs, currentUser, evCount,
                    pending, behav, mergeIn, latest, pubCount, lastOp, pollVars,
                    tokVars, adapter >>

CallHasMinimumHierarchy(minLevel) ==
    Evaluated([NoAnswer EXCEPT !.fn = "hasMinimumHierarchy", !.minLevel = minLevel,
                               !.result = hasMinimumHierarchy(authState, minLevel)])

CallHasAnyRole(roles) ==
    Evaluated([NoAnswer EXCEPT !.fn = "hasAnyRole", !.roles = roles,
                               !.result = hasAnyRole(authState, roles)])

CallCanManageTeam ==
    Evaluated([NoAnswer EXCEPT !.fn = "canManageTeam",
                               !.result = canManageTeam(authState)])

CallCanAccessProject(projectId) ==
    Evaluated([NoAnswer EXCEPT !.fn = "canAccessProject", !.projectId = projectId,
                               !.result = canAccessProject(authState, projectId)])

CallCanModifyProject(projectId) ==
    Evaluated([NoAnswer EXCEPT !.fn = "canModifyProject", !.projectId = projectId,
                               !.result = canModifyProject(authState, projectId)])

\* ------------------------------------------------------------------
\* Specification of the session
\* ------------------------------------------------------------------
Next ==
    \/ \E u \in Principals \cup {Null} : ProviderChange(u)
    \/ Initialize
    \/ BindComplete
    \/ Destroy
    \/ \E i \in 1..MaxPending, in \in SessionInputs : ListenerMergeDone(i, in)
    \/ \E p \in Principals, ok \in BOOLEAN, m \in ErrorMessages : LoginStart(p, ok, m)
    \/ \E i \in 1..MaxPending, in \in SessionInputs : LoginMergeDone(i, in)
    \/ \E ok \in BOOLEAN : LogoutStart(ok)
    \/ \E i \in 1..MaxPending : LogoutDone(i)
    \/ LoginWithoutAuth("u1")
    \/ LogoutWithoutAuth
    \/ onAuthStateChange("cbB", "ok")

Spec == Init /\ [][Next]_vars

NextRegistry ==
    \/ \E u \in Principals \cup {Null} : ProviderChange(u)
    \/ Initialize
    \/ BindComplete
    \/ Destroy
    \/ \E i \in 1..MaxPending, in \in SessionInputs : ListenerMergeDone(i, in)
    \/ \E cb \in Callbacks, b \in Behaviours : onAuthStateChange(cb, b)
    \/ \E cb \in Callbacks : UnsubscribeCall(cb)
    \/ \E cb \in Callbacks : UnsubscribeAgain(cb)

SpecRegistry == Init /\ [][NextRegistry]_vars

\* ------------------------------------------------------------------
\* Specification of the merge: the inputs of createUserFromFirebase are
\* drawn once, and every merge of the run reads them
\* ------------------------------------------------------------------
\* every combination of organization / project / team-role sources, with
\* one primary role
TenantInputs ==
    {in \in MergeInputs :
        /\ in.claims.role = "MEMBER" /\ in.claims.hierarchy = NoNumber
        /\ in.claims.appRoles = {}}
    \cup FailedInputs

\* the service after initialize(auth) bound it to a signed-out provider
InitMerge ==
    /\ mergeIn \in TenantInputs
    /\ authState = UnauthenticatedState
    /\ listeners = <<>>
    /\ unsubscribeAuth = 1
    /\ isListenerInitialized = TRUE
    /\ authInstance = TRUE
    /\ binding = 0
    /\ bindCount = 1
    /\ subs = {1}
    /\ currentUser = Null
    /\ evCount = 0
    /\ pending = <<>>
    /\ behav = [c \in Registrants |-> "ok"]
    /\ latest = Null
    /\ pubCount = << 0 >>
    /\ lastOp = [op |-> "bind", principal |-> Null, cb |-> "", ok |-> TRUE,
                 notified |-> 1, publishes |-> 1, before |-> <<>>, calls |-> <<>>,
                 threw |-> FALSE, tid |-> 1, delivered |-> UnauthenticatedState,
                 returned |-> NoOutcome]
    /\ answer = NoAnswer
    /\ storage = "nowindow" /\ TokenIdle
    /\ polling = FALSE /\ globalAuth = FALSE /\ pollCount = 0
    /\ bindingGlobal = 0 /\ subsGlobal = {}
    /\ adapter = AdapterUnmounted

NextMerge ==
    \/ ProviderChange("u1")
    \/ \E i \in 1..MaxPending : ListenerMergeDone(i, mergeIn)
    \/ LoginStart("u1", TRUE, "")
    \/ \E i \in 1..MaxPending : LoginMergeDone(i, mergeIn)

SpecMerge == InitMerge /\ [][NextMerge]_vars

\* ------------------------------------------------------------------
\* Specification of the evaluators: the claims and the team roles of the one
\* user are drawn once; the user signs in and the evaluators are called
\* before, during and after the merge
\* ------------------------------------------------------------------
EvalInputs ==
    {in \in MergeInputs :
        /\ in.hub = NoHub
        /\ in.userDoc.status # "fail" /\ in.teamDoc.status # "fail"
        /\ in.userDoc.organizationId = "" /\ in.teamDoc.organizationId = ""}

InitEval ==
    /\ mergeIn \in EvalInputs
    /\ authState = UnauthenticatedState
    /\ listeners = <<>>
    /\ unsubscribeAuth = 1
    /\ isListenerInitialized = TRUE
    /\ authInstance = TRUE
    /\ binding = 0
    /\ bindCount = 1
    /\ subs = {1}
    /\ currentUser = Null
    /\ evCount = 0
    /\ pending = <<>>
    /\ behav = [c \in Registrants |-> "ok"]
    /\ latest = Null
    /\ pubCount = << 0 >>
    /\ lastOp = [op |-> "bind", principal |-> Null, cb |-> "", ok |-> TRUE,
                 notified |-> 1, publishes |-> 1, before |-> <<>>, calls |-> <<>>,
                 threw |-> FALSE, tid |-> 1, delivered |-> UnauthenticatedState,
                 returned |-> NoOutcome]
    /\ answer = NoAnswer
    /\ storage = "nowindow" /\ TokenIdle
    /\ polling = FALSE /\ globalAuth = FALSE /\ pollCount = 0
    /\ bindingGlobal = 0 /\ subsGlobal = {}
    /\ adapter = AdapterUnmounted

NextEval ==
    \/ ProviderChange("u1")
    \/ \E i \in 1..MaxPending : ListenerMergeDone(i, mergeIn)
    \/ \E l \in Levels : CallHasMinimumHierarchy(l)
    \/ \E rs \in RoleLists : CallHasAnyRole(rs)
    \/ CallCanManageTeam
    \/ \E p \in Projects : CallCanAccessProject(p)
    \/ \E p \in Projects : CallCanModifyProject(p)

SpecEval == InitEval /\ [][NextEval]_vars

\* ------------------------------------------------------------------
\* Specification of progress: the service from its construction, with the
\* merges of the run reading one drawn set of inputs, among them profile
\* documents whose read never returns.  A merge whose awaits all return is
\* resumed by the event loop, and so is a started initializeAuthListener.
\* ------------------------------------------------------------------
PlainInputs ==
    [claimsError |-> Null, claims |-> NoClaims, db |-> TRUE,
     userDoc |-> NoUserDoc("absent"), teamDoc |-> NoTeamDoc("absent"), hub |-> NoHub]

LiveInputs ==
    { [PlainInputs EXCEPT !.userDoc = NoUserDoc(st), !.teamDoc = NoTeamDoc(tt)] :
        st \in {"absent", "fail", "hang"}, tt \in {"absent", "fail", "hang"} }
    \cup FailedInputs

InitLive ==
    /\ mergeIn \in LiveInputs
    /\ authState = LoadingState
    /\ listeners = <<>>
    /\ unsubscribeAuth = 0
    /\ isListenerInitialized = FALSE
    /\ authInstance = FALSE
    /\ binding = 0
    /\ bindCount = 0
    /\ subs = {}
    /\ currentUser = Null
    /\ evCount = 0
    /\ pending = <<>>
    /\ behav = [c \in Registrants |-> "ok"]
    /\ latest = Null
    /\ pubCount = <<>>
    /\ lastOp = [op |-> "init", principal |-> Null, cb |-> "", ok |-> TRUE,
                 notified |-> 0, publishes |-> 0, before |-> <<>>, calls |-> <<>>,
                 threw |-> FALSE, tid |-> 0, delivered |-> LoadingState,
                 returned |-> NoOutcome]
    /\ answer = NoAnswer
    /\ storage = "nowindow" /\ TokenIdle
    /\ polling = FALSE /\ globalAuth = FALSE /\ pollCount = 0
    /\ bindingGlobal = 0 /\ subsGlobal = {}
    /\ adapter = AdapterUnmounted

NextLive ==
    \/ \E u \in Principals \cup {Null} : ProviderChange(u)
    \/ Initialize
    \/ BindComplete
    \/ \E i \in 1..MaxPending : ListenerMergeDone(i, mergeIn)
    \/ onAuthStateChange("cbB", "ok")

SpecLive ==
    /\ InitLive /\ [][NextLive]_vars
    /\ WF_vars(BindComplete)
    /\ WF_vars(\E i \in 1..MaxPending : ListenerMergeDone(i, mergeIn))

\* ------------------------------------------------------------------
\* Specification of the deferred initialization: the service constructed in
\* a page (window is defined) before any instance was injected
\* ------------------------------------------------------------------
\* the constructor ran deferredInitialize: checkFirebaseReady found the
\* global and started initializeAuthListener, or armed its first timeout
InitPoll ==
    /\ globalAuth \in BOOLEAN
    /\ polling = ~globalAuth
    /\ pollCount = 0
    /\ binding = (IF globalAuth THEN 1 ELSE 0)
    /\ bindingGlobal = binding
    /\ subsGlobal = {}
    /\ adapter = AdapterUnmounted
    /\ bindCount = 0
    /\ mergeIn = PlainInputs
    /\ authState = LoadingState
    /\ listeners = <<>>
    /\ unsubscribeAuth = 0
    /\ isListenerInitialized = FALSE
    /\ authInstance = FALSE
    /\ subs = {}
    /\ currentUser = Null
    /\ evCount = 0
    /\ pending = <<>>
    /\ behav = [c \in Registrants |-> "ok"]
    /\ latest = Null
    /\ pubCount = <<>>
    /\ lastOp = [op |-> "init", principal |-> Null, cb |-> "", ok |-> TRUE,
                 notified |-> 0, publishes |-> 0, before |-> <<>>, calls |-> <<>>,
                 threw |-> FALSE, tid |-> 0, delivered |-> LoadingState,
                 returned |-> NoOutcome]
    /\ answer = NoAnswer
    /\ storage = "ok" /\ TokenIdle

NextPoll ==
    \/ checkFirebaseReady
    \/ GlobalAuthAppears
    \/ Initialize
    \/ BindComplete
    \/ \E u \in Principals \cup {Null} : ProviderChange(u)
    \/ \E i \in 1..MaxPending : ListenerMergeDone(i, mergeIn)

SpecPoll == InitPoll /\ [][NextPoll]_vars

\* ------------------------------------------------------------------
\* Specification of the token lifecycle: a bound service whose user signs
\* in and out, foreground getIdToken calls, the refresh monitor, the clock
\* ------------------------------------------------------------------
\* the service after initialize(auth, firestore) bound it to a signed-out
\* provider
BoundService ==
    /\ mergeIn = PlainInputs
    /\ authState = UnauthenticatedState
    /\ listeners = <<>>
    /\ unsubscribeAuth = 1
    /\ isListenerInitialized = TRUE
    /\ authInstance = TRUE
    /\ binding = 0
    /\ bindCount = 1
    /\ subs = {1}
    /\ currentUser = Null
    /\ evCount = 0
    /\ pending = <<>>
    /\ behav = [c \in Registrants |-> "ok"]
    /\ latest = Null
    /\ pubCount = << 0 >>
    /\ lastOp = [op |-> "bind", principal |-> Null, cb |-> "", ok |-> TRUE,
                 notified |-> 1, publishes |-> 1, before |-> <<>>, calls |-> <<>>,
                 threw |-> FALSE, tid |-> 1, delivered |-> UnauthenticatedState,
                 returned |-> NoOutcome]
    /\ answer = NoAnswer
    /\ polling = FALSE /\ globalAuth = FALSE /\ pollCount = 0
    /\ bindingGlobal = 0 /\ subsGlobal = {}
    /\ adapter = AdapterUnmounted

InitToken ==
    /\ BoundService
    /\ storage \in StorageModes
    /\ TokenIdle

NextToken ==
    \/ \E u \in {"u1", Null} : ProviderChange(u)
    \/ \E i \in 1..MaxPending : ListenerMergeDone(i, mergeIn)
    \/ \E force \in BOOLEAN : GetIdTokenStart(force)
    \/ \E i \in 1..MaxCalls, ok \in BOOLEAN : TokenSettles(i, ok)
    \/ \E i \in 1..MaxCalls, o \in ExpiryOutcomes : ExpirySettles(i, o)
    \/ startTokenRefreshMonitor
    \/ stopTokenRefreshMonitor
    \/ MonitorTick
    \/ \E i \in 1..MaxCalls, o \in ExpiryOutcomes : MonitorExpirySettles(i, o)
    \/ ClockTick

SpecToken == InitToken /\ [][NextToken]_vars

\* ------------------------------------------------------------------
\* Specification of the cache: the item an earlier session or another
\* script left in localStorage is drawn; callers store and read
\* ------------------------------------------------------------------
StoredEntries ==
    {AbsentEntry, CorruptEntry}
    \cup {Entry(t, e) : t \in {0, OldToken}, e \in 0..2}

InitCache ==
    /\ BoundService
    /\ storage \in StorageModes
    /\ cacheEntry \in StoredEntries
    /\ now = 0
    /\ provToken = 0
    /\ expiryOf = <<>>
    /\ tokenCalls = <<>>
    /\ timer = FALSE
    /\ tokOp = NoTokOp

NextCache ==
    \/ ClockTick
    \/ \E e \in 1..MaxTime : CallStoreTokenForOffline(OldToken, e)
    \/ CallGetStoredToken

SpecCache == InitCache /\ [][NextCache]_vars

\* the state InitMerge starts from, as a state of the session specification
BoundSignedOut ==
    /\ authState = UnauthenticatedState /\ listeners = <<>>
    /\ unsubscribeAuth = 1 /\ isListenerInitialized /\ authInstance
    /\ binding = 0 /\ bindCount = 1 /\ subs = {1} /\ currentUser = Null
    /\ evCount = 0 /\ pending = <<>> /\ latest = Null /\ pubCount = << 0 >>
    /\ lastOp.op = "bind" /\ lastOp.notified = 1 /\ lastOp.publishes = 1
    /\ lastOp.delivered = UnauthenticatedState /\ lastOp.tid = 1

NotBoundSignedOut == ~BoundSignedOut

\* ------------------------------------------------------------------
\* Properties
\* ------------------------------------------------------------------
MergeSettled == lastOp.op \in {"listenerDone", "loginDone"} /\ lastOp.ok

Count(c, seq) == Cardinality({i \in 1..Len(seq) : seq[i] = c})

\* the organization id the user has of their own: claims, then the users
\* document, then the teamMembers document, then the sentinel
OwnOrganizationId(in) ==
    LET readable == in.db /\ in.userDoc.status # "fail" /\ in.teamDoc.status # "fail"
    IN IF in.claims.organizationId # "" THEN in.claims.organizationId
       ELSE IF readable /\ in.userDoc.organizationId # "" THEN in.userDoc.organizationId
       ELSE IF readable /\ in.teamDoc.organizationId # "" THEN in.teamDoc.organizationId
       ELSE "standalone"

\* C1: a merge of the auth listener that settles after a later notification
\* for another principal (or null) was handled does not overwrite the state
\* of that later notification.
C1_StaleMergeDiscarded ==
    (lastOp.op = "listenerDone" /\ lastOp.principal # latest)
        => authState.firebaseUser = latest

\* C2: when the asserted organization id differs from the user's own
\* organization id, the merge succeeds and the snapshot carries the user's
\* own organization id, never the asserted one.
C2_AssertedOrgRejected ==
    (/\ MergeSettled
     /\ HubAsserted(mergeIn.hub.orgId)
     /\ mergeIn.hub.orgId # OwnOrganizationId(mergeIn))
        => /\ authState.isAuthenticated
           /\ ~IsNull(authState.user)
           /\ Val(authState.user).organizationId = OwnOrganizationId(mergeIn)
           /\ Val(authState.user).organizationId # mergeIn.hub.orgId

C2_Witness ==
    /\ lastOp.op = "listenerDone" /\ lastOp.ok
    /\ mergeIn.hub.fails = "none" /\ mergeIn.hub.orgId = "orgX"
    /\ mergeIn.claims.organizationId = "org1"
    /\ Val(authState.user).organizationId = "org1"

\* C3: when the asserted project id is not in the claims' project-access
\* list and the owner flag is false, the snapshot has no project id.
C3_AssertedProjectRejected ==
    (/\ MergeSettled
     /\ HubAsserted(mergeIn.hub.projectId)
     /\ ~mergeIn.claims.isOrganizationOwner
     /\ \/ IsNull(mergeIn.claims.projectAccess)
        \/ mergeIn.hub.projectId \notin Val(mergeIn.claims.projectAccess))
        => /\ ~IsNull(authState.user)
           /\ Val(authState.user).projectId = ""

C3_Witness ==
    /\ lastOp.op = "listenerDone" /\ lastOp.ok
    /\ mergeIn.hub.fails = "none" /\ mergeIn.hub.projectId = "projB"
    /\ mergeIn.claims.projectAccess = << {"projA"} >>
    /\ ~mergeIn.claims.isOrganizationOwner
    /\ Val(authState.user).projectId = ""

\* C4: whenever a snapshot exists its organizationId is a non-empty string,
\* and it is 'standalone' when neither the claims nor a document has one.
C4_OrganizationIdNeverEmpty ==
    ~IsNull(authState.user)
        => /\ Val(authState.user).organizationId # ""
           /\ (/\ mergeIn.claims.organizationId = ""
               /\ mergeIn.userDoc.organizationId = ""
               /\ mergeIn.teamDoc.organizationId = "")
                 => Val(authState.user).organizationId = "standalone"

C4_Witness ==
    /\ ~IsNull(authState.user)
    /\ mergeIn.claims.organizationId = "" /\ ~mergeIn.db
    /\ mergeIn.hub.fails = "none" /\ mergeIn.hub.orgId = "orgX"
    /\ Val(authState.user).organizationId = "standalone"

\* C5: when the claims fetch of a notification's merge fails, the state is
\* the error state: no snapshot, not authenticated, not loading, an error
\* string, the principal retained (so it differs from the unauthenticated
\* state), and no exception leaves the handler.
C5_ClaimsFailureIsErrorState ==
    (lastOp.op = "listenerDone" /\ ~lastOp.ok)
        => /\ IsNull(authState.user)
           /\ ~authState.isAuthenticated
           /\ ~authState.isLoading
           /\ authState.error \notin {Null, ""}
           /\ authState.firebaseUser = lastOp.principal
           /\ authState.firebaseUser # Null
           /\ authState # UnauthenticatedState
           /\ ~lastOp.threw

C5_Witness ==
    /\ lastOp.op = "listenerDone" /\ ~lastOp.ok
    /\ authState.error = "Failed to create user"
    /\ \E i \in 1..Len(lastOp.calls) : behav[lastOp.calls[i]] = "throw"

\* C6: a notification with a null principal leaves the state
\* unauthenticated in the same step, and every authorization evaluator is
\* false for every argument.
C6_NullPrincipalSignsOut ==
    (lastOp.notified > 0 /\ lastOp.principal = Null)
        => /\ authState = UnauthenticatedState
           /\ \A l \in Levels : ~hasMinimumHierarchy(authState, l)
           /\ \A rs \in SUBSET RoleNames : ~hasAnyRole(authState, rs)
           /\ ~canManageTeam(authState)
           /\ \A p \in Projects : ~canAccessProject(authState, p)
           /\ \A p \in Projects : ~canModifyProject(authState, p)

C6_Witness ==
    /\ lastOp.op = "providerChange" /\ lastOp.notified > 0
    /\ lastOp.principal = Null
    /\ Len(pending) > 0
    /\ authState = UnauthenticatedState

\* C7: onAuthStateChange hands the callback the state the service holds at
\* the moment of the subscription.
C7_SubscribeDeliversCurrent ==
    lastOp.op = "subscribe" => lastOp.delivered = authState

C7_Witness ==
    /\ lastOp.op = "subscribe"
    /\ authState.isAuthenticated
    /\ lastOp.delivered = authState

\* C8: in a publish in which a callback throws, the exception does not leave
\* the publisher, and when no callback unsubscribes during that publish every
\* registered callback is still invoked, in registration order.
C8_ThrowingListenerIsolated ==
    (/\ lastOp.publishes > 0
     /\ \E i \in 1..Len(lastOp.calls) : behav[lastOp.calls[i]] = "throw")
        => /\ ~lastOp.threw
           /\ Len(listeners) = Len(lastOp.before)
                => lastOp.calls = lastOp.before

C8_Witness ==
    /\ lastOp.publishes > 0
    /\ Len(lastOp.before) = 2
    /\ behav[lastOp.before[1]] = "throw"
    /\ lastOp.before[2] # lastOp.before[1]
    /\ lastOp.calls = lastOp.before

\* C9: after a publish during which callbacks unsubscribed, every
\* registration that is still in place was invoked by that publish.
C9_NoSubscriberSkipped ==
    lastOp.publishes > 0
        => \A c \in Callbacks : Count(c, listeners) <= Count(c, lastOp.calls)

\* C10: no session transition (one upstream change, one login, one logout)
\* is published to the subscribers more than once.
C10_OnePublishPerTransition ==
    \A t \in 1..Len(pubCount) : pubCount[t] <= 1

\* C11: every publish, whatever the state it carries, invokes every callback
\* that is registered when it starts and still registered when it ends, and
\* invokes callbacks in registration order.
C11_EveryPublishReachesAll ==
    lastOp.publishes > 0
        => /\ \A c \in Range(lastOp.before) \cap Range(listeners) :
                 c \in Range(lastOp.calls)
           /\ \A i, j \in 1..Len(lastOp.calls) :
                 i < j => IndexOf(lastOp.before, lastOp.calls[i])
                            <= IndexOf(lastOp.before, lastOp.calls[j])

\* C12: authState is assigned only by the onAuthStateChanged callback (when
\* the provider notifies it, or when the merge it awaited settles); login and
\* logout never assign it.  (destroy, the teardown of the service, is left
\* aside.)
C12_OnlyHandlerWrites ==
    [][authState' # authState
          => \/ lastOp'.op \in {"providerChange", "bind", "listenerDone", "destroy"}
             \/ (lastOp'.op \in {"loginStart", "logoutStart"} /\ lastOp'.notified > 0)]_vars

\* the snapshot, read field by field
HasSnapshot == ~IsNull(authState.user)
Snapshot == Val(authState.user)

\* the snapshot's owner flag is set or the id is in its project-access list
MayAccess(projectId) ==
    /\ HasSnapshot
    /\ \/ Snapshot.isOrganizationOwner
       \/ (~IsNull(Snapshot.projectAccess) /\ projectId \in Val(Snapshot.projectAccess))

\* the snapshot's effective hierarchy, 0 when it has none
SnapshotHierarchy ==
    IF Snapshot.effectiveHierarchy = NoNumber THEN 0 ELSE Snapshot.effectiveHierarchy

\* the administrative role names, in the spellings the model draws
AdministrativeAnyCase ==
    {"ADMIN", "admin", "OWNER", "owner", "MANAGER", "manager", "SUPERADMIN", "superadmin"}

\* C13: canAccessProject(id) is true iff a snapshot exists and its owner flag
\* is set or id is in its project-access list; for an owner it is true for
\* every id, also with an absent or empty list.
C13_CanAccessProject ==
    answer.fn = "canAccessProject"
        => /\ answer.result = MayAccess(answer.projectId)
           /\ (HasSnapshot /\ Snapshot.isOrganizationOwner) => answer.result

C13_Witness ==
    /\ answer.fn = "canAccessProject" /\ answer.result
    /\ HasSnapshot /\ Snapshot.isOrganizationOwner
    /\ IsNull(Snapshot.projectAccess)

\* C14: canModifyProject(p) is true iff the project is accessible and the
\* effective hierarchy is at least 30; it is never true of a project that
\* canAccessProject refuses.
C14_CanModifyProject ==
    answer.fn = "canModifyProject"
        => /\ answer.result = (MayAccess(answer.projectId) /\ SnapshotHierarchy >= 30)
           /\ answer.result => canAccessProject(authState, answer.projectId)

C14_Witness ==
    /\ answer.fn = "canModifyProject" /\ ~answer.result
    /\ HasSnapshot /\ SnapshotHierarchy >= 30
    /\ ~Snapshot.isOrganizationOwner
    /\ Snapshot.projectAccess = << {"projA"} >> /\ answer.projectId = "projB"

\* C15: while the state holds no snapshot (loading, unauthenticated, error,
\* after destroy) every evaluator is false for every argument.
C15_NoSnapshotAllFalse ==
    IsNull(authState.user)
        => /\ \A l \in Levels : ~hasMinimumHierarchy(authState, l)
           /\ \A rs \in SUBSET RoleNames : ~hasAnyRole(authState, rs)
           /\ ~canManageTeam(authState)
           /\ \A p \in Projects : ~canAccessProject(authState, p)
           /\ \A p \in Projects : ~canModifyProject(authState, p)

C15_Witness ==
    /\ lastOp.op = "listenerDone" /\ ~lastOp.ok
    /\ IsNull(authState.user) /\ authState.error # Null
    /\ ~hasMinimumHierarchy(authState, 0)

\* C16: canManageTeam() is true iff a snapshot exists and its effective
\* hierarchy is at least 50, or its role is administrative, or its team role
\* is administrative in any letter case; claims {role: ADMIN, organizationId:
\* org1} without profile data give organization org1 and canManageTeam.
C16_CanManageTeam ==
    /\ answer.fn = "canManageTeam"
          => answer.result =
               (/\ HasSnapshot
                /\ \/ SnapshotHierarchy >= 50
                   \/ Snapshot.role \in {"ADMIN", "OWNER", "MANAGER", "SUPERADMIN"}
                   \/ Snapshot.teamMemberRole \in AdministrativeAnyCase)
    /\ (/\ MergeSettled
        /\ mergeIn.claims.role = "ADMIN" /\ mergeIn.claims.organizationId = "org1"
        /\ IsNull(FirestoreData(mergeIn)))
          => /\ HasSnapshot /\ Snapshot.organizationId = "org1"
             /\ canManageTeam(authState)
             /\ answer.fn = "canManageTeam" => answer.result

C16_Witness ==
    /\ answer.fn = "canManageTeam" /\ answer.result
    /\ HasSnapshot /\ Snapshot.role = "MEMBER" /\ SnapshotHierarchy < 50
    /\ Snapshot.teamMemberRole = "manager"

\* C17: hasAnyRole(roles) is true iff a snapshot exists and its role, or one
\* of the values of its app-role map, is in roles; it is false for [].
C17_HasAnyRole ==
    answer.fn = "hasAnyRole"
        => /\ answer.result =
                (/\ HasSnapshot
                 /\ \/ Snapshot.role \in answer.roles
                    \/ Snapshot.appRoles \cap answer.roles # {})
           /\ answer.roles = {} => ~answer.result

C17_Witness ==
    /\ answer.fn = "hasAnyRole" /\ answer.result
    /\ HasSnapshot /\ Snapshot.role \notin answer.roles
    /\ "EDITOR" \in Snapshot.appRoles

\* C18: hasMinimumHierarchy(level) is true iff a snapshot exists and its
\* effective hierarchy, 0 when it has none, is at least level.
C18_HasMinimumHierarchy ==
    answer.fn = "hasMinimumHierarchy"
        => answer.result = (HasSnapshot /\ SnapshotHierarchy >= answer.minLevel)

C18_Witness ==
    /\ answer.fn = "hasMinimumHierarchy" /\ answer.result
    /\ HasSnapshot /\ Snapshot.effectiveHierarchy = NoNumber
    /\ answer.minLevel = 0

\* the organization id by the precedence of the sources, each document
\* taken as it was read
OrganizationByPrecedence(in) ==
    IF in.claims.organizationId # "" THEN in.claims.organizationId
    ELSE IF in.userDoc.status = "ok" /\ in.userDoc.organizationId # ""
    THEN in.userDoc.organizationId
    ELSE IF in.teamDoc.status = "ok" /\ in.teamDoc.organizationId # ""
    THEN in.teamDoc.organizationId
    ELSE "standalone"

\* the team role: the users document's, else the teamMembers document's
TeamRoleByPrecedence(in) ==
    IF in.userDoc.status = "ok" /\ in.userDoc.teamMemberRole # ""
    THEN in.userDoc.teamMemberRole
    ELSE IF in.teamDoc.status = "ok" THEN in.teamDoc.role ELSE ""

\* C19: without an asserted organization, the merged snapshot's
\* organizationId is the claims' one, else the users document's, else the
\* teamMembers document's, else 'standalone'; its team role is the users
\* document's, else the teamMembers document's.
C19_SourcePrecedence ==
    (MergeSettled /\ ~HubAsserted(mergeIn.hub.orgId))
        => /\ HasSnapshot
           /\ Snapshot.organizationId = OrganizationByPrecedence(mergeIn)
           /\ Snapshot.teamMemberRole = TeamRoleByPrecedence(mergeIn)

\* nothing could be read from the profile store: there is no store, or each
\* document is absent or its read failed
NoProfileData(in) ==
    \/ ~in.db
    \/ (in.userDoc.status # "ok" /\ in.teamDoc.status # "ok")

\* C20: a merge whose claims fetch succeeded settles in the authenticated
\* state whatever the profile store did (absent, documents absent, reads
\* failing), and with nothing readable the snapshot is the one of the claims
\* alone.
C20_ProfileFailureTolerated ==
    (lastOp.op \in {"listenerDone", "loginDone"} /\ mergeIn.claimsError = Null)
        => /\ lastOp.ok
           /\ authState.isAuthenticated /\ ~authState.isLoading
           /\ authState.error = Null
           /\ HasSnapshot
           /\ NoProfileData(mergeIn)
                => /\ Snapshot.teamMemberRole = ""
                   /\ ~HubAsserted(mergeIn.hub.orgId)
                        => Snapshot.organizationId =
                             OrElse(mergeIn.claims.organizationId, "standalone")

C20_Witness ==
    /\ lastOp.op = "listenerDone" /\ lastOp.ok
    /\ mergeIn.db /\ mergeIn.userDoc.status = "fail" /\ mergeIn.teamDoc.status = "fail"
    /\ authState.isAuthenticated
    /\ Snapshot.organizationId = "standalone"

\* C21: a rejected read of one of the two documents does not discard what
\* the other document gave: the users document's organization id and team
\* role when the teamMembers read fails, the teamMembers document's when the
\* users read fails.
C21_ReadsIndependent ==
    (/\ MergeSettled /\ ~HubAsserted(mergeIn.hub.orgId)
     /\ mergeIn.claims.organizationId = "")
        => /\ (mergeIn.userDoc.status = "ok" /\ mergeIn.teamDoc.status = "fail")
                => /\ Snapshot.organizationId =
                        OrElse(mergeIn.userDoc.organizationId, "standalone")
                   /\ Snapshot.teamMemberRole = mergeIn.userDoc.teamMemberRole
           /\ (mergeIn.userDoc.status = "fail" /\ mergeIn.teamDoc.status = "ok")
                => /\ Snapshot.organizationId =
                        OrElse(mergeIn.teamDoc.organizationId, "standalone")
                   /\ Snapshot.teamMemberRole = mergeIn.teamDoc.role

\* the inputs of the merge with no context asserted by the shell
Unasserted(in) == [in EXCEPT !.hub = NoHub]

\* C22: when a step of the context validation throws, the merge succeeds and
\* the snapshot is the one of the same inputs with no assertion: the user's
\* own organization id, and no project id.
C22_ValidationThrowIsNoAssertion ==
    (/\ lastOp.op \in {"listenerDone", "loginDone"}
     /\ mergeIn.claimsError = Null /\ mergeIn.hub.fails # "none")
        => /\ lastOp.ok /\ authState.isAuthenticated /\ HasSnapshot
           /\ Snapshot = Val(createUserFromFirebase(lastOp.principal,
                                                    Unasserted(mergeIn)).user)
           /\ Snapshot.organizationId = OwnOrganizationId(mergeIn)
           /\ Snapshot.projectId = ""

C22_Witness ==
    /\ lastOp.op = "listenerDone" /\ lastOp.ok
    /\ mergeIn.hub.fails = "validateProject"
    /\ mergeIn.hub.orgId = "org1" /\ mergeIn.claims.organizationId = "org1"
    /\ mergeIn.hub.projectId = "projA"
    /\ mergeIn.claims.projectAccess = << {"projA"} >>
    /\ HasSnapshot /\ Snapshot.projectId = ""

\* C27: login rejects when signInWithEmailAndPassword or the merge failed
\* and logout rejects when signOut failed; a login that resolves resolves to
\* the snapshot the state holds.
C27_FailuresReject ==
    /\ lastOp.op = "loginDone"
          => /\ ~lastOp.ok => ~lastOp.returned.resolved
             /\ lastOp.returned.resolved
                  => /\ lastOp.ok /\ HasSnapshot
                     /\ lastOp.returned.value = authState.user
    /\ (lastOp.op = "logoutDone" /\ ~lastOp.ok) => ~lastOp.returned.resolved

C27_Witness ==
    /\ lastOp.op = "loginDone" /\ ~lastOp.ok
    /\ lastOp.tid > 0
    /\ ~lastOp.returned.resolved
    /\ authState.error = "network-error"

\* C29: once a notification with a principal has been handed to the
\* callback and its claims were fetched, the state eventually stops loading,
\* also when a document read never returns.
C29_LoadingEnds ==
    (/\ Len(pending) > 0 /\ mergeIn.claimsError = Null /\ authState.isLoading)
        ~> ~authState.isLoading

\* C30: while no instance is injected and no global appears, the polling
\* gives up after a bounded number of retries: by the MaxPolls-th retry it
\* has stopped.
C30_PollingStops ==
    (pollCount = MaxPolls /\ ~authInstance /\ ~globalAuth) => ~polling

C24_CacheNeverFails ==
    (tokOp.op = "getIdToken" /\ tokOp.done /\ tokOp.outcome \in ExpiryOutcomes)
        => tokOp.result # NullToken /\ tokOp.result = tokOp.granted

C24_Witness ==
    /\ tokOp.op = "getIdToken" /\ tokOp.done
    /\ storage = "throws" /\ tokOp.outcome = "finite"
    /\ tokOp.result = tokOp.granted /\ tokOp.result # NullToken
    /\ cacheEntry = AbsentEntry

\* C25: getStoredToken() is the cached token iff the store works, the item
\* is well formed and now < expiresAt, and null otherwise;
\* isStoredTokenValid() is true exactly when it is not null.
C25_GetStoredToken ==
    tokOp.op = "getStoredToken"
        => /\ tokOp.done
           /\ tokOp.result =
                (IF /\ storage = "ok" /\ tokOp.cacheBefore.kind = "entry"
                    /\ tokOp.cacheBefore.token # 0
                    /\ tokOp.cacheBefore.expiresAt # 0
                    /\ tokOp.at < tokOp.cacheBefore.expiresAt
                 THEN tokOp.cacheBefore.token ELSE NullToken)
           /\ tokOp.valid = (tokOp.result # NullToken)
           /\ cacheEntry = tokOp.cacheBefore

C25_Witness ==
    /\ tokOp.op = "getStoredToken" /\ tokOp.result = NullToken
    /\ storage = "ok" /\ tokOp.cacheBefore.kind = "entry"
    /\ tokOp.cacheBefore.token = OldToken
    /\ tokOp.cacheBefore.expiresAt > 0
    /\ tokOp.at >= tokOp.cacheBefore.expiresAt

\* C26 (as stated): whenever getIdToken returns a token and the store
\* works, the item afterwards holds that token.
C26_CacheHoldsReturned ==
    (/\ tokOp.op \in {"getIdToken", "monitor"} /\ tokOp.done
     /\ tokOp.result # NullToken /\ storage = "ok")
        => cacheEntry.kind = "entry" /\ cacheEntry.token = tokOp.result

\* C26 (amended): whenever getIdToken returns a token, the store works and
\* the expiry lookup gave a finite expiry, the item afterwards holds that
\* token, whatever it held before.
C26_CacheHoldsReturnedWhenExpiryKnown ==
    (/\ tokOp.op \in {"getIdToken", "monitor"} /\ tokOp.done
     /\ tokOp.result # NullToken /\ storage = "ok"
     /\ tokOp.outcome = "finite")
        => cacheEntry.kind = "entry" /\ cacheEntry.token = tokOp.result

C26_Witness ==
    /\ tokOp.op = "getIdToken" /\ tokOp.done /\ tokOp.outcome = "finite"
    /\ storage = "ok"
    /\ tokOp.cacheBefore.kind = "entry" /\ tokOp.cacheBefore.token # tokOp.result
    /\ cacheEntry.token = tokOp.result

\* C28: under every interleaving of a foreground getIdToken and the monitor,
\* the item the service wrote pairs a token with that token's own expiry, so
\* getStoredToken never returns a token that has expired.
C28_CachePairsTokenWithOwnExpiry ==
    (storage = "ok" /\ cacheEntry.kind = "entry" /\ cacheEntry.token \in 1..Len(expiryOf))
        => /\ cacheEntry.expiresAt = expiryOf[cacheEntry.token]
           /\ getStoredToken(storage, cacheEntry, now) # NullToken
                => now < expiryOf[cacheEntry.token]

\* C34: the state is always one of loading, authenticated, unauthenticated
\* and error: an authenticated state carries no error and is not loading,
\* and a state with an error is not loading.
C34_ExactlyOneOfFour ==
    /\ authState.isAuthenticated
          => authState.error = Null /\ ~authState.isLoading
    /\ authState.error # Null => ~authState.isLoading

\* C35: isAuthenticated holds exactly when the state has a snapshot, and a
\* state with a snapshot has a principal.
C35_AuthenticatedIffSnapshot ==
    /\ authState.isAuthenticated <=> ~IsNull(authState.user)
    /\ ~IsNull(authState.user) => authState.firebaseUser # Null

C35_Witness ==
    /\ lastOp.op = "loginDone" /\ ~lastOp.ok /\ lastOp.tid > 0
    /\ authState.isAuthenticated /\ ~IsNull(authState.user)
    /\ authState.error # Null

\* the step is a login that failed / a logout that failed
FailedLoginStep ==
    /\ lastOp'.op = "loginDone" /\ ~lastOp'.ok
    /\ << lastOp, evCount, pending >>' # << lastOp, evCount, pending >>

FailedLogoutStep ==
    /\ lastOp'.op = "logoutDone" /\ ~lastOp'.ok
    /\ << lastOp, evCount, pending >>' # << lastOp, evCount, pending >>

\* C36 (as stated): a failed logout leaves the state as it is and publishes
\* nothing; a failed login changes nothing but error and publishes exactly
\* once.
C36_FailureFrame ==
    [][/\ FailedLogoutStep
            => /\ authState' = authState /\ listeners' = listeners
               /\ lastOp'.publishes = 0
       /\ FailedLoginStep
            => /\ authState' = [authState EXCEPT !.error = authState'.error]
               /\ lastOp'.publishes = 1]_vars

\* C36 (amended): as stated for a login that fails in signIn or in the
\* merge, with the error set to the message of the failure; a login that
\* fails because no provider instance is available leaves the state as it is
\* and publishes nothing.
C36_FailureFrameWhenAuthAvailable ==
    [][/\ FailedLogoutStep
            => /\ authState' = authState /\ listeners' = listeners
               /\ lastOp'.publishes = 0
       /\ (FailedLoginStep /\ AuthAvailable)
            => /\ authState' = [authState EXCEPT !.error = authState'.error]
               /\ authState'.error # Null
               /\ lastOp'.publishes = 1
       /\ (FailedLoginStep /\ ~AuthAvailable)
            => /\ authState' = authState /\ listeners' = listeners
               /\ lastOp'.publishes = 0]_vars

C36_Witness ==
    /\ lastOp.op = "loginDone" /\ ~lastOp.ok /\ lastOp.publishes = 1
    /\ authState.isAuthenticated /\ authState.firebaseUser # lastOp.principal
    /\ authState.error = "Login failed"

\* C38: an unsubscribe function removes one registration of its callback,
\* and calling it again changes nothing: the registrations that are left,
\* a second registration of the same callback among them, stay in place.
C38_UnsubscribeIdempotent ==
    /\ lastOp.op = "unsubscribe"
          => /\ Len(listeners) = Len(lastOp.before) - 1
             /\ \A c \in Callbacks :
                   Count(c, listeners) =
                       Count(c, lastOp.before) - (IF c = lastOp.cb THEN 1 ELSE 0)
    /\ lastOp.op = "unsubscribeAgain" => listeners = lastOp.before

\* C39: when the callback throws during the immediate delivery,
\* onAuthStateChange leaves the listeners array as it was before the call.
C39_SubscribeAllOrNothing ==
    (lastOp.op = "subscribe" /\ lastOp.threw) => listeners = lastOp.before

\* C31: while the deferred wait is pending nothing is bound to the global
\* instance; once an instance is injected, the tick of the wait arms no
\* further timeout and starts no binding, and no binding takes the global
\* instance any more, so the service is bound to the injected one.
C31_DeferredWaitAbandoned ==
    [][/\ polling => bindingGlobal = 0 /\ subsGlobal = {}
       /\ authInstance
            => /\ bindingGlobal' <= bindingGlobal
               /\ polling => subsGlobal' = {}
               /\ pollCount' # pollCount
                    => /\ ~polling'
                       /\ binding' = binding /\ bindCount' = bindCount
                       /\ subs' = subs]_vars

C31_Witness ==
    /\ lastOp.op = "checkFirebaseReady" /\ authInstance /\ globalAuth
    /\ ~polling /\ pollCount = 1
    /\ binding = 1 /\ bindingGlobal = 0 /\ subsGlobal = {}

\* C33: the provider has at most one subscription of the service, the one
\* unsubscribeAuth can cancel, and a session change is handed to one
\* callback.
C33_SingleSubscription ==
    /\ Cardinality(subs) <= 1
    /\ subs \subseteq {unsubscribeAuth}
    /\ lastOp.notified <= 1

\* C37: after destroy() there are no subscribers, no subscription and an
\* unauthenticated state that is not loading; after a later initialize(auth)
\* the service is subscribed to the provider again, or about to be.
C37_RebindsAfterDestroy ==
    /\ lastOp.op = "destroy"
          => /\ listeners = <<>> /\ unsubscribeAuth = 0
             /\ authState = UnauthenticatedState
    /\ lastOp.op = "initialize"
          => binding > 0 \/ unsubscribeAuth \in subs

\* ------------------------------------------------------------------
\* Specifications of the service with UnifiedAuthProvider subscribed
\* ------------------------------------------------------------------
\* the merges: the same user, as organization owner and not, and the failures
AdapterInputs ==
    { [PlainInputs EXCEPT !.db = FALSE,
                          !.claims = [NoClaims EXCEPT !.organizationId = "org1",
                                                      !.isOrganizationOwner = o]] :
        o \in BOOLEAN }
    \cup FailedInputs

\* the provider is the only subscriber
NextAdapter ==
    \/ AdapterMount
    \/ Initialize
    \/ BindComplete
    \/ \E u \in {"u1", Null} : ProviderChange(u)
    \/ \E i \in 1..MaxPending, in \in AdapterInputs : ListenerMergeDone(i, in)
    \/ \E ok \in BOOLEAN, m \in ErrorMessages : LoginStart("u1", ok, m)
    \/ \E i \in 1..MaxPending, in \in AdapterInputs : LoginMergeDone(i, in)
    \/ LogoutStart(TRUE)
    \/ \E i \in 1..MaxPending : LogoutDone(i)

SpecAdapter == Init /\ [][NextAdapter]_vars

\* a client component subscribes too, with a callback that unsubscribes
\* itself when it is invoked by a publish
NextAdapterShared ==
    \/ AdapterMount
    \/ onAuthStateChange("cbA", "unsubSelf")
    \/ Initialize
    \/ BindComplete
    \/ \E u \in {"u1", Null} : ProviderChange(u)
    \/ \E i \in 1..MaxPending, in \in AdapterInputs : ListenerMergeDone(i, in)
    \/ \E ok \in BOOLEAN, m \in ErrorMessages : LoginStart("u1", ok, m)
    \/ \E i \in 1..MaxPending, in \in AdapterInputs : LoginMergeDone(i, in)
    \/ LogoutStart(TRUE)
    \/ \E i \in 1..MaxPending : LogoutDone(i)

SpecAdapterShared == Init /\ [][NextAdapterShared]_vars

\* the four fields the provider compares
ComparedFields(st) ==
    << st.isAuthenticated, EmailOf(st), st.isLoading, st.error >>

\* the last operation published while the provider was subscribed
PublishedToAdapter ==
    /\ lastOp.publishes > 0
    /\ AdapterCallback \in Range(lastOp.before)
    /\ AdapterCallback \in Range(listeners)

\* C32: after a publish made while the provider is subscribed, the state the
\* provider holds agrees with the published state on isAuthenticated, the
\* user's email, isLoading and error
C32_AdapterAgreesOnComparedFields ==
    PublishedToAdapter =>
        ComparedFields(adapter.authState) = ComparedFields(lastOp.delivered)

\* C40: after a publish made while the provider is subscribed, the user record
\* the provider holds is the service's current user record, and whenever the
\* provider's isOrganizationOwner() is true the service's canAccessProject(p)
\* is true for every project
C40_AdapterHoldsCurrentUser ==
    PublishedToAdapter =>
        /\ adapter.authState.user = authState.user
        /\ AdapterIsOrganizationOwner(adapter.authState) =>
               \A p \in Projects : canAccessProject(authState, p)

====
